---------------------------- MODULE Spec2Model ----------------------------
(*************************************************************************)
(* voxkey dictation daemon: the state machine (state.rs), the recovery   *)
(* supervisor and the session loop (main.rs), the injector task          *)
(* (injector.rs), the streaming task (streaming.rs) and the shared hub   *)
(* with its IPC methods (dbus.rs), as one state machine.                 *)
(*************************************************************************)
EXTENDS Integers, Sequences, FiniteSets, TLC

\* ----------------------------------------------------------------------
\* Bounds of the model and constants of the program
\* ----------------------------------------------------------------------

\* Captures (batch or streaming) that may be started in one behaviour.
MaxCaptures == 2

\* Text deltas one streaming task may receive from the server.
MaxDeltas == 1

\* IPC method calls that may be in progress at the same time.
MaxCalls == 2

\* main.rs:187  const REPEAT_THRESHOLD = 100 ms
REPEAT_THRESHOLD == 100

\* main.rs:163  mpsc::channel::<Event>(32)
StateChanCap == 32

\* injector.rs:37  mpsc::channel::<String>(32)
InjectCap == 32

\* Gaps (ms since last_activated) the clock is sampled at: the key-repeat
\* period of main.rs:184, the threshold itself, and anything above it.
Gaps == {30, REPEAT_THRESHOLD, REPEAT_THRESHOLD + 1}

None == "None"

\* state.rs:8-15
States == {"Idle", "Recording", "Streaming", "Transcribing", "Injecting",
           "RecoveringSession"}

\* state.rs:33-40
Events == {"Activated", "Deactivated", "TranscriptReady", "InjectionDone",
           "Error", "Recovered"}

\* voxkey-ipc lib.rs:57-63 (one batch provider and the streaming provider)
Providers == {"WhisperCpp", "MistralRealtime"}

\* config.rs:47-49 default shortcut id, and an id of another application
ShortcutId == "dictate_hold"
ForeignId == "other"

\* config.rs:55-57 the default trigger, and another one
Triggers == {"<Super>space", "<Control>F10"}

\* voxkey-ipc lib.rs:186-188 the default typing delay, and another one
Delays == {5, 20}

\* config.rs:68-74 the default sample rate and channels, and another pair
Audios == {<<16000, 1>>, <<48000, 2>>}

\* config.rs:9-21 Config, the fields the IPC surface exposes.
Configs == [provider : Providers, trigger : Triggers,
            typing_delay_ms : Delays, sample_rate : {16000, 48000},
            channels : {1, 2}]

\* config.rs:105-115 Config::default, with the provider p of the file.
DefaultConfig(p) ==
    [provider |-> p, trigger |-> "<Super>space", typing_delay_ms |-> 5,
     sample_rate |-> 16000, channels |-> 1]

\* ----------------------------------------------------------------------
\* state.rs: State::transition, arm by arm in match order
\* ----------------------------------------------------------------------

\* Mutant: the wildcard Error arm forgotten for Recording.
transition_noErrorInRecording(s, e) ==
    CASE s = "Idle" /\ e = "Activated" -> "Recording"
      [] s = "Recording" /\ e = "Deactivated" -> "Transcribing"
      [] s = "Streaming" /\ e = "Deactivated" -> "Transcribing"
      [] s = "Transcribing" /\ e = "TranscriptReady" -> "Injecting"
      [] s = "Injecting" /\ e = "InjectionDone" -> "Idle"
      [] s = "Transcribing" /\ e = "InjectionDone" -> "Idle"
      [] s = "Streaming" /\ e = "InjectionDone" -> "Idle"
      [] s # "Recording" /\ e = "Error" -> "RecoveringSession"
      [] s = "RecoveringSession" /\ e = "Recovered" -> "Idle"
      [] s = "Injecting" /\ e = "Activated" -> "Recording"
      [] OTHER -> None

\* Mutant: InjectionDone ends a batch recording as it ends a streaming one.
transition_doneInRecording(s, e) ==
    CASE s = "Idle" /\ e = "Activated" -> "Recording"
      [] s = "Recording" /\ e = "Deactivated" -> "Transcribing"
      [] s = "Streaming" /\ e = "Deactivated" -> "Transcribing"
      [] s = "Transcribing" /\ e = "TranscriptReady" -> "Injecting"
      [] s = "Injecting" /\ e = "InjectionDone" -> "Idle"
      [] s = "Transcribing" /\ e = "InjectionDone" -> "Idle"
      [] s = "Streaming" /\ e = "InjectionDone" -> "Idle"
      [] s = "Recording" /\ e = "InjectionDone" -> "Idle"
      [] e = "Error" -> "RecoveringSession"
      [] s = "RecoveringSession" /\ e = "Recovered" -> "Idle"
      [] s = "Injecting" /\ e = "Activated" -> "Recording"
      [] OTHER -> None

\* Mutant: TranscriptReady is ignored while Transcribing.
transition_noInjecting(s, e) ==
    CASE s = "Idle" /\ e = "Activated" -> "Recording"
      [] s = "Recording" /\ e = "Deactivated" -> "Transcribing"
      [] s = "Streaming" /\ e = "Deactivated" -> "Transcribing"
      [] s = "Injecting" /\ e = "InjectionDone" -> "Idle"
      [] s = "Transcribing" /\ e = "InjectionDone" -> "Idle"
      [] s = "Streaming" /\ e = "InjectionDone" -> "Idle"
      [] e = "Error" -> "RecoveringSession"
      [] s = "RecoveringSession" /\ e = "Recovered" -> "Idle"
      [] s = "Injecting" /\ e = "Activated" -> "Recording"
      [] OTHER -> None

\* state.rs:45-94.  The arms are tried in order; the first that matches
\* decides.  The arms returning None (lines 74-92) are the OTHER case.
transition(s, e) ==
    IF s = "Idle" /\ e = "Activated" THEN "Recording"
    ELSE IF s = "Recording" /\ e = "Deactivated" THEN "Transcribing"
    ELSE IF s = "Streaming" /\ e = "Deactivated" THEN "Transcribing"
    ELSE IF s = "Transcribing" /\ e = "TranscriptReady" THEN "Injecting"
    ELSE IF s = "Injecting" /\ e = "InjectionDone" THEN "Idle"
    ELSE IF s = "Transcribing" /\ e = "InjectionDone" THEN "Idle"
    ELSE IF s = "Streaming" /\ e = "InjectionDone" THEN "Idle"
    ELSE IF e = "Error" THEN "RecoveringSession"
    ELSE IF s = "RecoveringSession" /\ e = "Recovered" THEN "Idle"
    ELSE IF s = "Recording" /\ e = "Activated" THEN None
    ELSE IF s = "Streaming" /\ e = "Activated" THEN None
    ELSE IF e = "Deactivated" THEN None
    ELSE IF s = "Injecting" /\ e = "Activated" THEN "Recording"
    ELSE None

\* Mutant: no variant counts as streaming.
is_streaming_never(cfg) == FALSE

\* transcriber.rs:34-36 with from_config (38-59): the variant built from
\* the provider is MistralRealtime exactly for that provider.
is_streaming(cfg) == cfg.provider = "MistralRealtime"


\* ----------------------------------------------------------------------
\* State
\* ----------------------------------------------------------------------

VARIABLES
    \* -- the task running run_with_recovery / run_session (main.rs)
    supPc,              \* where that task is (an await point)
    supResult,          \* what run_with_recovery returned
    sessCfg,            \* main.rs:96   config snapshot of the session
    restore_token,      \* main.rs:127  token loaded for this session
    shortcutsUp,        \* main.rs:135  ShortcutController of this session
    desktopUp,          \* main.rs:139  DesktopController of this session
    current_state,      \* main.rs:175
    recording_handle,   \* main.rs:178  id of the capture held, 0 = None
    streaming_handle,   \* main.rs:179  id of the capture held, 0 = None
    elapsed,            \* ms since last_activated (main.rs:188), saturating
    audio_path,         \* capture whose file stop() returned (main.rs:347)
    \* -- channels and tasks of the session
    state_ch,           \* main.rs:163  mpsc channel of Events
    inj_q,              \* injector.rs:37  queue of texts
    inj_cur,            \* text the injector task is typing, 0 if none
    st,                 \* the spawned streaming task (main.rs:232)
    \* -- tasks that outlive their session (tokio::spawn detaches them)
    inj_orphans,        \* remaining queues of earlier injector tasks
    st_orphans,         \* earlier streaming tasks still running
    \* -- SharedState (dbus.rs:16-30) and the files it stands for
    state, config, portal_connected, last_transcript, last_error,
    pending_injection,
    restart_signal,     \* dbus.rs:18  Notify: a stored permit
    shutdown_signal,    \* dbus.rs:19  Notify: a stored permit
    token_file,         \* the restore-token file: exists, mode
    \* -- bookkeeping for the properties
    nCaptures,          \* captures started so far (their ids are 1..n)
    nLive,              \* audio input streams that exist (cpal::Stream)
    hist,               \* states published since the last capture start
    cyc,                \* the batch capture cycle in progress
    sig,                \* what the last Activated signal of the cycle did
    quitEver,           \* quit() was called
    wav,                \* WAV files stop() has returned that still exist
    updates,            \* writes of last_transcript made for each capture
    \* -- IPC method calls being served (dbus.rs:245-372)
    calls,
    \* -- one run of run_streaming_session, frame by frame (streaming.rs)
    ws,
    \* -- a text being converted: a config file or a JSON value
    io

supVars == <<supPc, supResult, sessCfg, restore_token, shortcutsUp, desktopUp>>
loopVars == <<current_state, recording_handle, streaming_handle, elapsed,
              audio_path>>
taskVars == <<state_ch, inj_q, inj_cur, st>>
orphanVars == <<inj_orphans, st_orphans>>
hubVars == <<state, config, portal_connected, last_transcript, last_error,
             pending_injection>>
latchVars == <<restart_signal, shutdown_signal>>
ghostVars == <<nCaptures, nLive, hist, cyc, sig, quitEver, wav, updates>>

vars == <<supVars, loopVars, taskVars, orphanVars, hubVars, latchVars,
          token_file, ghostVars, calls, ws, io>>

\* An IPC call slot: the method being served, where its handler is, the
\* config reload_config has loaded, and what the handler has done so far.
CallIds == 1..MaxCalls
IdleCall ==
    [m |-> "none", pc |-> "idle", val |-> DefaultConfig("WhisperCpp"),
     changed |-> FALSE, seen |-> FALSE, saved |-> FALSE, notified |-> FALSE]

\* The ids of the captures of one behaviour.
CaptureIds == 1..MaxCaptures

\* No streaming run is looked at frame by frame; no text is converted.
NoWs == [pc |-> "none"]
NoIo == [pc |-> "none"]

NoTask == [alive |-> FALSE, cap |-> 0, acc |-> 0, stop |-> FALSE]
NoCycle == [quiet |-> FALSE, cap |-> 0, tr |-> "none", inj |-> "none"]

\* The restore-token file: absent, or present with its permission bits.
\* A file the daemon saved has 0600; one placed by hand has what the
\* umask gave it.
NoFile == [exists |-> FALSE, mode |-> "none"]
TokenFiles ==
    {NoFile} \cup {[exists |-> TRUE, mode |-> m] : m \in {"0600", "0644"}}

\* What a call of save_restore_token can come to.
SaveResults == {"ok", "write_fail", "chmod_fail"}

\* persistence.rs:9-32 load_restore_token: Some(token) when the file is
\* there.
load_restore_token == token_file.exists

\* Await points inside run_session, where the supervisor's select
\* (main.rs:97-118) can see the shutdown latch fire.
SetupPcs == {"shortcuts", "desktop", "desktop_retry", "streams"}
LoopPcs == {"select", "transcribing", "enqueue"}
SessionPcs == SetupPcs \cup LoopPcs

\* dbus.rs:33-47 SharedState::new, and main.rs:61-86 up to the call of
\* run_with_recovery: the IPC interface is served, no session exists.
Init ==
    /\ supPc = "start"
    /\ supResult = "none"
    /\ config \in {DefaultConfig(p) : p \in Providers}
    /\ sessCfg = config
    /\ restore_token = FALSE
    /\ shortcutsUp = FALSE
    /\ desktopUp = FALSE
    /\ current_state = None
    /\ recording_handle = 0
    /\ streaming_handle = 0
    /\ elapsed = 0
    /\ audio_path = 0
    /\ state_ch = <<>>
    /\ inj_q = <<>>
    /\ inj_cur = 0
    /\ st = NoTask
    /\ inj_orphans = {}
    /\ st_orphans = {}
    /\ state = "Idle"
    /\ portal_connected = FALSE
    /\ last_transcript = 0
    /\ last_error = ""
    /\ pending_injection = 0
    /\ restart_signal = FALSE
    /\ shutdown_signal = FALSE
    /\ token_file \in {f \in TokenFiles : f.mode # "0644"}
    /\ nCaptures = 0
    /\ nLive = 0
    /\ hist = <<"Idle">>
    /\ cyc = NoCycle
    /\ sig = "none"
    /\ quitEver = FALSE
    /\ wav = {}
    /\ updates = [c \in CaptureIds |-> 0]
    /\ calls = [c \in CallIds |-> IdleCall]
    /\ ws = NoWs
    /\ io = NoIo

\* ----------------------------------------------------------------------
\* Fragments shared by several actions
\* ----------------------------------------------------------------------

\* main.rs:407-411 update_state, called once for each state of ss in turn.
Publish(ss) ==
    /\ state' = ss[Len(ss)]
    /\ hist' = hist \o ss

\* The queue an injector task still has to work through.
Remaining == IF inj_cur = 0 THEN inj_q ELSE <<inj_cur>> \o inj_q

\* The run_session future ends or is dropped: its locals are dropped
\* (handles, channel ends, controllers); the spawned tasks are detached
\* and go on with what they hold.
DropSession ==
    /\ current_state' = None
    /\ recording_handle' = 0
    /\ streaming_handle' = 0
    /\ elapsed' = 0
    /\ audio_path' = 0
    /\ state_ch' = <<>>
    /\ inj_q' = <<>>
    /\ inj_cur' = 0
    /\ st' = NoTask
    /\ shortcutsUp' = FALSE
    /\ desktopUp' = FALSE
    /\ nLive' = 0
    /\ hist' = <<state>>
    /\ cyc' = NoCycle
    /\ sig' = "none"
    /\ wav' = wav

\* Mutant: the Err arm gives the error back to the caller.
SessionErr_returnsErr ==
    /\ DropSession
    /\ supPc' = "returned"
    /\ supResult' = "Err"
    /\ portal_connected' = portal_connected
    /\ restore_token' = FALSE
    /\ UNCHANGED <<inj_orphans, st_orphans>>

\* Mutant: the Err arm leaves the portal-connected flag alone.
SessionErr_keepsConnected ==
    /\ DropSession
    /\ supPc' = "err_notify"
    /\ supResult' = supResult
    /\ portal_connected' = portal_connected
    /\ restore_token' = FALSE
    /\ UNCHANGED <<inj_orphans, st_orphans>>

\* main.rs:103-106: run_session returned Err (only its set-up can: lines
\* 135, 145, 147, 169, 170); the supervisor clears portal-connected and
\* awaits the notification.
SessionErr ==
    /\ DropSession
    /\ supPc' = "err_notify"
    /\ supResult' = supResult
    /\ portal_connected' = FALSE
    /\ restore_token' = FALSE
    /\ UNCHANGED <<inj_orphans, st_orphans>>

\* Mutant: the session is built from the config of the session before.
EnterSession_staleConfig ==
    /\ sessCfg' = sessCfg
    /\ IF shutdown_signal
       THEN /\ supPc' = "returned"
            /\ supResult' = "Ok"
            /\ shutdown_signal' = FALSE
            /\ restore_token' = FALSE
       ELSE /\ supPc' = "shortcuts"
            /\ supResult' = supResult
            /\ shutdown_signal' = shutdown_signal
            /\ restore_token' = load_restore_token

\* main.rs:95-98 and 114-117, 126-127: the loop head.  The config is
\* read, run_session is polled up to its first portal call, and the
\* shutdown latch is polled in the same pass: a stored permit ends the
\* supervisor before the session gets anywhere.
EnterSession ==
    /\ sessCfg' = config
    /\ IF shutdown_signal
       THEN /\ supPc' = "returned"
            /\ supResult' = "Ok"
            /\ shutdown_signal' = FALSE
            /\ restore_token' = FALSE
       ELSE /\ supPc' = "shortcuts"
            /\ supResult' = supResult
            /\ shutdown_signal' = shutdown_signal
            /\ restore_token' = load_restore_token

\* ----------------------------------------------------------------------
\* Recovery supervisor (main.rs:94-120) and session set-up (124-176)
\* ----------------------------------------------------------------------

LoopHead ==
    /\ supPc = "start"
    /\ EnterSession
    /\ UNCHANGED <<shortcutsUp, desktopUp, loopVars, taskVars, orphanVars,
                   hubVars, restart_signal, token_file, ghostVars,
                   calls, ws, io>>

\* main.rs:135 ShortcutController::new(..).await?
ShortcutsCreate(ok) ==
    /\ supPc = "shortcuts"
    /\ IF ok
       THEN /\ shortcutsUp' = TRUE
            /\ supPc' = "desktop"
            /\ UNCHANGED <<supResult, restore_token, desktopUp, loopVars,
                           taskVars, orphanVars, hubVars, ghostVars,
                           calls, ws, io>>
       ELSE /\ SessionErr
            /\ UNCHANGED <<state, config, last_transcript, last_error,
                           pending_injection, nCaptures, quitEver, updates,
                           calls, ws, io>>
    /\ UNCHANGED <<sessCfg, latchVars, token_file>>

\* Mutant: the token is written and the permissions are left as they are.
save_restore_token_noChmod(res) ==
    token_file' =
        IF res = "write_fail" THEN token_file
        ELSE IF token_file.exists THEN token_file
        ELSE [exists |-> TRUE, mode |-> "0644"]

\* persistence.rs:35-46 save_restore_token.  fs::write keeps the mode of
\* a file that exists and creates a new one with the mode the umask
\* gives (0644 under the usual 022); set_permissions then makes it 0600.
\* res: both calls succeed, the write fails, or the write succeeds and
\* set_permissions fails.
save_restore_token(res) ==
    token_file' =
        IF res = "write_fail" THEN token_file
        ELSE IF res = "chmod_fail"
        THEN (IF token_file.exists THEN token_file
              ELSE [exists |-> TRUE, mode |-> "0644"])
        ELSE [exists |-> TRUE, mode |-> "0600"]

\* main.rs:151-156: a token the portal returned is saved; a failure of
\* the save is logged and the session goes on.
SaveToken(newTok, res) ==
    IF newTok THEN save_restore_token(res) ELSE token_file' = token_file

\* main.rs:139-148 DesktopController::new with the loaded token; when it
\* fails and a token was loaded, the file is removed (144) and the call
\* is made again without a token.
DesktopCreate(ok, newTok, res) ==
    /\ supPc = "desktop"
    /\ IF ok
       THEN /\ desktopUp' = TRUE
            /\ supPc' = "streams"
            /\ SaveToken(newTok, res)
            /\ UNCHANGED <<supResult, restore_token, shortcutsUp, loopVars,
                           taskVars, orphanVars, hubVars, ghostVars,
                           calls, ws, io>>
       ELSE IF restore_token
       THEN /\ token_file' = NoFile
            /\ supPc' = "desktop_retry"
            /\ UNCHANGED <<supResult, restore_token, shortcutsUp, desktopUp,
                           loopVars, taskVars, orphanVars, hubVars,
                           ghostVars, calls, ws, io>>
       ELSE /\ SessionErr
            /\ UNCHANGED <<state, config, last_transcript, last_error,
                           pending_injection, nCaptures, quitEver, updates,
                           calls, ws, io,
                           token_file>>
    /\ UNCHANGED <<sessCfg, latchVars>>

\* main.rs:145 the retry without a token.
DesktopRetry(ok, newTok, res) ==
    /\ supPc = "desktop_retry"
    /\ IF ok
       THEN /\ desktopUp' = TRUE
            /\ supPc' = "streams"
            /\ SaveToken(newTok, res)
            /\ UNCHANGED <<supResult, restore_token, shortcutsUp, loopVars,
                           taskVars, orphanVars, hubVars, ghostVars,
                           calls, ws, io>>
       ELSE /\ SessionErr
            /\ UNCHANGED <<state, config, last_transcript, last_error,
                           pending_injection, nCaptures, quitEver, updates,
                           calls, ws, io,
                           token_file>>
    /\ UNCHANGED <<sessCfg, latchVars>>

\* main.rs:158-188: the channel and the injector are created, the signal
\* streams are opened (169-170, each may fail), portal-connected is set
\* and Idle is published.
StreamsReady(ok) ==
    /\ supPc = "streams"
    /\ IF ok
       THEN /\ supPc' = "select"
            /\ portal_connected' = TRUE
            /\ current_state' = "Idle"
            /\ Publish(<<"Idle">>)
            /\ elapsed' = 0
            /\ UNCHANGED <<supResult, restore_token, shortcutsUp, desktopUp,
                           recording_handle, streaming_handle, audio_path,
                           taskVars, orphanVars, config, last_transcript,
                           last_error, pending_injection, nCaptures, nLive,
                           cyc, sig, quitEver, wav, updates,
                   calls, ws, io>>
       ELSE /\ SessionErr
            /\ UNCHANGED <<state, config, last_transcript, last_error,
                           pending_injection, nCaptures, quitEver, updates,
                           calls, ws, io>>
    /\ UNCHANGED <<sessCfg, latchVars, token_file>>

\* main.rs:106-109: the notification is sent, RecoveringSession is
\* published and the back-off sleep begins.
SupPublishRecovering ==
    /\ supPc = "err_notify"
    /\ supPc' = "backoff"
    /\ Publish(<<"RecoveringSession">>)
    /\ UNCHANGED <<supResult, sessCfg, restore_token, shortcutsUp, desktopUp,
                   loopVars, taskVars, orphanVars, config, portal_connected,
                   last_transcript, last_error, pending_injection, latchVars,
                   token_file, nCaptures, nLive, cyc, sig, quitEver,
                   wav, updates,
                   calls, ws, io>>

\* main.rs:109-110: the sleep is over, Idle is published, the loop turns.
SupBackoffDone ==
    /\ supPc = "backoff"
    /\ supPc' = "start"
    /\ Publish(<<"Idle">>)
    /\ UNCHANGED <<supResult, sessCfg, restore_token, shortcutsUp, desktopUp,
                   loopVars, taskVars, orphanVars, config, portal_connected,
                   last_transcript, last_error, pending_injection, latchVars,
                   token_file, nCaptures, nLive, cyc, sig, quitEver,
                   wav, updates,
                   calls, ws, io>>

\* Mutant: the request only wakes a task that is awaiting at that moment;
\* nothing is stored.
request_session_restart_noPermit == restart_signal' = restart_signal

\* dbus.rs:97-99 request_session_restart: Notify::notify_one stores the
\* permit (one at most) when no task is waiting.
request_session_restart == restart_signal' = TRUE

\* dbus.rs:101-103 session_restart_requested: notified().await returns
\* when the permit is there and takes it.
session_restart_requested ==
    /\ restart_signal
    /\ restart_signal' = FALSE

\* dbus.rs:109-111 shutdown_requested.
shutdown_requested ==
    /\ shutdown_signal
    /\ shutdown_signal' = FALSE

\* main.rs:114-117: the shutdown arm of the supervisor's select fires
\* while run_session is suspended at one of its await points; the
\* session future is dropped and the daemon exits (main.rs:46-51), which
\* ends every task.
SupShutdown ==
    /\ supPc \in SessionPcs
    /\ shutdown_requested
    /\ DropSession
    /\ supPc' = "returned"
    /\ supResult' = "Ok"
    /\ restore_token' = FALSE
    /\ inj_orphans' = {}
    /\ st_orphans' = {}
    /\ UNCHANGED <<sessCfg, hubVars, restart_signal, token_file, nCaptures,
                   quitEver, updates, calls, ws, io>>


\* ----------------------------------------------------------------------
\* Session loop (main.rs:190-322) with stop_recording and stop_streaming
\* ----------------------------------------------------------------------

\* Nothing of an earlier cycle is outstanding: the injector is idle, no
\* event waits in the channel, no streaming task of any session runs.
Quiescent ==
    /\ current_state = "Idle"
    /\ Remaining = <<>>
    /\ state_ch = <<>>
    /\ ~st.alive
    /\ st_orphans = {}

\* main.rs:334-385 stop_recording up to the transcribe await: Transcribing
\* is published, the handle is taken and stopped.  stopOk is the result
\* of RecordingHandle::stop (recorder.rs:171-189).
StopRecordingBegin(stopOk) ==
    /\ current_state = "Recording"
    /\ sig' = "stop"
    /\ IF recording_handle # 0
       THEN /\ recording_handle' = 0
            /\ nLive' = nLive - 1
            /\ IF stopOk
               THEN /\ current_state' = "Transcribing"
                    /\ Publish(<<"Transcribing">>)
                    /\ audio_path' = recording_handle
                    /\ wav' = wav \cup {recording_handle}
                    /\ supPc' = "transcribing"
                    /\ UNCHANGED <<last_error, cyc>>
               ELSE /\ current_state' = "Idle"
                    /\ Publish(<<"Transcribing", "Idle">>)
                    /\ last_error' = "Failed to stop recording"
                    /\ cyc' = [cyc EXCEPT !.tr = "stopfail"]
                    /\ UNCHANGED <<audio_path, supPc, wav>>
       ELSE /\ current_state' = "Transcribing"
            /\ Publish(<<"Transcribing">>)
            /\ UNCHANGED <<recording_handle, nLive, audio_path, supPc,
                           last_error, cyc, wav>>
    /\ UNCHANGED <<streaming_handle, st, nCaptures>>

\* Mutant: the capture is stopped and the task is not told to drain.
StopStreaming_noDrain ==
    /\ current_state = "Streaming"
    /\ sig' = "stop"
    /\ current_state' = "Transcribing"
    /\ Publish(<<"Transcribing">>)
    /\ IF streaming_handle # 0
       THEN /\ streaming_handle' = 0
            /\ nLive' = nLive - 1
            /\ st' = st
       ELSE UNCHANGED <<streaming_handle, nLive, st>>
    /\ UNCHANGED <<recording_handle, audio_path, supPc, last_error, cyc,
                   nCaptures, wav>>

\* main.rs:388-404 stop_streaming.
StopStreaming ==
    /\ current_state = "Streaming"
    /\ sig' = "stop"
    /\ current_state' = "Transcribing"
    /\ Publish(<<"Transcribing">>)
    /\ IF streaming_handle # 0
       THEN /\ streaming_handle' = 0
            /\ nLive' = nLive - 1
            /\ st' = IF st.alive THEN [st EXCEPT !.stop = TRUE] ELSE st
       ELSE UNCHANGED <<streaming_handle, nLive, st>>
    /\ UNCHANGED <<recording_handle, audio_path, supPc, last_error, cyc,
                   nCaptures, wav>>

\* main.rs:226-274: the streaming flow of an accepted Activated.
StartStreaming(startOk) ==
    /\ recording_handle' = recording_handle
    /\ IF startOk
       THEN /\ streaming_handle' = nCaptures + 1
            /\ st' = [alive |-> TRUE, cap |-> nCaptures + 1, acc |-> 0,
                      stop |-> FALSE]
            /\ current_state' = "Streaming"
            /\ last_error' = ""
            /\ state' = "Streaming"
            /\ hist' = <<state, "Streaming">>
            /\ nLive' = nLive + 1 - (IF streaming_handle # 0 THEN 1 ELSE 0)
            /\ nCaptures' = nCaptures + 1
            /\ sig' = "start"
       ELSE /\ last_error' = "Failed to start streaming"
            /\ current_state' = "Idle"
            /\ state' = "Idle"
            /\ hist' = <<state, "Idle">>
            /\ sig' = "none"
            /\ UNCHANGED <<streaming_handle, st, nLive, nCaptures>>
    /\ cyc' = NoCycle
    /\ UNCHANGED <<audio_path, supPc, wav>>

\* main.rs:275-294: the batch flow of an accepted Activated.  The new
\* state is published before Recorder::start is called.
StartRecording(new, startOk) ==
    /\ streaming_handle' = streaming_handle
    /\ IF startOk
       THEN /\ recording_handle' = nCaptures + 1
            /\ current_state' = new
            /\ last_error' = ""
            /\ state' = new
            /\ hist' = <<state, new>>
            /\ nLive' = nLive + 1 - (IF recording_handle # 0 THEN 1 ELSE 0)
            /\ nCaptures' = nCaptures + 1
            /\ cyc' = [quiet |-> Quiescent, cap |-> nCaptures + 1,
                       tr |-> "none", inj |-> "none"]
            /\ sig' = "start"
       ELSE /\ last_error' = "Failed to start recording"
            /\ current_state' = "Idle"
            /\ state' = "Idle"
            /\ hist' = <<state, new, "Idle">>
            /\ cyc' = NoCycle
            /\ sig' = "none"
            /\ UNCHANGED <<recording_handle, nLive, nCaptures>>
    /\ UNCHANGED <<audio_path, supPc, st, wav>>

\* Mutant: the repeat test is gap < REPEAT_THRESHOLD.
IsRepeat_strict(gap) == gap < REPEAT_THRESHOLD

\* main.rs:203  if gap <= REPEAT_THRESHOLD { continue; }
IsRepeat(gap) == gap <= REPEAT_THRESHOLD

\* Mutant: every shortcut id is taken for the configured one.
ForeignShortcut_never(id) == FALSE

\* main.rs:195  signal.shortcut_id() != SHORTCUT_ID
ForeignShortcut(id) == id # ShortcutId

\* main.rs:193-300: the Activated arm.  id is the signal's shortcut id,
\* devOk the result of the recorder call the arm makes, if it makes one.
Activated(id, devOk) ==
    /\ supPc = "select"
    /\ IF ForeignShortcut(id)
       THEN UNCHANGED <<loopVars, supPc, st, hubVars, ghostVars,
       calls, ws, io>>
       ELSE IF current_state \in {"Recording", "Streaming"}
       THEN /\ elapsed' = 0
            /\ IF IsRepeat(elapsed)
               THEN /\ sig' = "repeat"
                    /\ UNCHANGED <<current_state, recording_handle,
                                   streaming_handle, audio_path, supPc, st,
                                   hubVars, nCaptures, nLive, hist, cyc,
                                   wav>>
               ELSE IF current_state = "Recording"
               THEN StopRecordingBegin(devOk)
               ELSE StopStreaming
       ELSE IF transition(current_state, "Activated") # None
       THEN /\ nCaptures < MaxCaptures
            /\ elapsed' = 0
            /\ IF is_streaming(sessCfg)
               THEN StartStreaming(devOk)
               ELSE StartRecording(transition(current_state, "Activated"),
                                   devOk)
       ELSE UNCHANGED <<loopVars, supPc, st, hubVars, ghostVars,
       calls, ws, io>>
    /\ UNCHANGED <<supResult, sessCfg, restore_token, shortcutsUp, desktopUp,
                   state_ch, inj_q, inj_cur, orphanVars, config,
                   portal_connected, last_transcript, pending_injection,
                   latchVars, token_file, quitEver, updates, calls, ws, io>>

\* main.rs:302-303: the Deactivated arm drains the stream and does nothing.
Deactivated ==
    /\ supPc = "select"
    /\ UNCHANGED vars

\* Mutant: the state-event arm leaves streaming_handle alone when the new
\* state is Idle.
StateEvent_keepsHandle ==
    /\ supPc = "select"
    /\ state_ch # <<>>
    /\ state_ch' = Tail(state_ch)
    /\ LET new == transition(current_state, Head(state_ch)) IN
       IF new # None
       THEN /\ IF FALSE
               THEN /\ streaming_handle' = 0
                    /\ nLive' = nLive - 1
                    /\ st' = IF st.alive THEN [st EXCEPT !.stop = TRUE]
                             ELSE st
               ELSE UNCHANGED <<streaming_handle, nLive, st>>
            /\ current_state' = new
            /\ Publish(<<new>>)
       ELSE UNCHANGED <<streaming_handle, nLive, st, current_state, state,
                        hist>>
    /\ UNCHANGED <<supVars, recording_handle, elapsed, audio_path, inj_q,
                   inj_cur, orphanVars, config, portal_connected,
                   last_transcript, last_error, pending_injection, latchVars,
                   token_file, nCaptures, cyc, sig, quitEver, wav, updates,
                   calls, ws, io>>

\* main.rs:306-314: the state-event arm.
StateEvent ==
    /\ supPc = "select"
    /\ state_ch # <<>>
    /\ state_ch' = Tail(state_ch)
    /\ LET new == transition(current_state, Head(state_ch)) IN
       IF new # None
       THEN /\ IF new = "Idle" /\ streaming_handle # 0
               THEN /\ streaming_handle' = 0
                    /\ nLive' = nLive - 1
                    /\ st' = IF st.alive THEN [st EXCEPT !.stop = TRUE]
                             ELSE st
               ELSE UNCHANGED <<streaming_handle, nLive, st>>
            /\ current_state' = new
            /\ Publish(<<new>>)
       ELSE UNCHANGED <<streaming_handle, nLive, st, current_state, state,
                        hist>>
    /\ UNCHANGED <<supVars, recording_handle, elapsed, audio_path, inj_q,
                   inj_cur, orphanVars, config, portal_connected,
                   last_transcript, last_error, pending_injection, latchVars,
                   token_file, nCaptures, cyc, sig, quitEver, wav, updates,
                   calls, ws, io>>

\* main.rs:316-320 and 100-102: the restart arm returns Restart, the
\* session's locals are dropped and the supervisor's loop turns at once.
RestartArm ==
    /\ supPc = "select"
    /\ session_restart_requested
    /\ inj_orphans' = inj_orphans \cup
                      (IF Remaining # <<>> THEN {Remaining} ELSE {})
    /\ st_orphans' = st_orphans \cup
                     (IF st.alive THEN {[cap |-> st.cap, acc |-> st.acc]}
                      ELSE {})
    /\ DropSession
    /\ EnterSession
    /\ UNCHANGED <<hubVars, token_file, nCaptures, quitEver, updates, calls,
                   ws, io>>

\* Mutant: the audio file is left where it is.
remove_audio_file_keeps(f) == wav

\* transcriber.rs:85-88: the audio file is removed when the provider's
\* call has returned, whatever it returned.
remove_audio_file(f) == wav \ {f}

\* dbus.rs set_last_transcript, counted for the capture the text is of.
Updated(cap) == [updates EXCEPT ![cap] = @ + 1]

\* Mutant: a failed transcription goes on to the injector's queue.
TranscribeDone_failHandsOn(outcome) ==
    /\ supPc = "transcribing"
    /\ cyc' = IF cyc.cap = audio_path THEN [cyc EXCEPT !.tr = outcome]
              ELSE cyc
    /\ wav' = remove_audio_file(audio_path)
    /\ CASE outcome = "text" ->
              /\ last_transcript' = audio_path
              /\ updates' = Updated(audio_path)
              /\ supPc' = "enqueue"
              /\ UNCHANGED <<current_state, state, hist, last_error,
                             audio_path>>
         [] outcome = "empty" ->
              /\ current_state' = "Idle"
              /\ Publish(<<"Idle">>)
              /\ supPc' = "select"
              /\ audio_path' = 0
              /\ UNCHANGED <<last_transcript, last_error, updates>>
         [] outcome = "fail" ->
              /\ last_error' = "Transcription failed"
              /\ supPc' = "enqueue"
              /\ UNCHANGED <<current_state, state, hist, audio_path,
                             last_transcript, updates>>
    /\ UNCHANGED <<supResult, sessCfg, restore_token, shortcutsUp, desktopUp,
                   recording_handle, streaming_handle, elapsed, taskVars,
                   orphanVars, config, portal_connected, pending_injection,
                   latchVars, token_file, nCaptures, nLive, sig, quitEver, calls,
                   ws, io>>

\* Mutant: an empty transcript is published and handed on like any other.
TranscribeDone_emptyIsText(outcome) ==
    /\ supPc = "transcribing"
    /\ cyc' = IF cyc.cap = audio_path THEN [cyc EXCEPT !.tr = outcome]
              ELSE cyc
    /\ wav' = remove_audio_file(audio_path)
    /\ CASE outcome \in {"text", "empty"} ->
              /\ last_transcript' = audio_path
              /\ updates' = Updated(audio_path)
              /\ supPc' = "enqueue"
              /\ UNCHANGED <<current_state, state, hist, last_error,
                             audio_path>>
         [] outcome = "fail" ->
              /\ last_error' = "Transcription failed"
              /\ current_state' = "Idle"
              /\ Publish(<<"Idle">>)
              /\ supPc' = "select"
              /\ audio_path' = 0
              /\ UNCHANGED <<last_transcript, updates>>
    /\ UNCHANGED <<supResult, sessCfg, restore_token, shortcutsUp, desktopUp,
                   recording_handle, streaming_handle, elapsed, taskVars,
                   orphanVars, config, portal_connected, pending_injection,
                   latchVars, token_file, nCaptures, nLive, sig, quitEver, calls,
                   ws, io>>

\* main.rs:348-373: the transcribe call of stop_recording has returned.
\* outcome: a text, an empty text, or an error.
TranscribeDone(outcome) ==
    /\ supPc = "transcribing"
    /\ cyc' = IF cyc.cap = audio_path THEN [cyc EXCEPT !.tr = outcome]
              ELSE cyc
    /\ wav' = remove_audio_file(audio_path)
    /\ CASE outcome = "text" ->
              /\ last_transcript' = audio_path
              /\ updates' = Updated(audio_path)
              /\ supPc' = "enqueue"
              /\ UNCHANGED <<current_state, state, hist, last_error,
                             audio_path>>
         [] outcome = "empty" ->
              /\ current_state' = "Idle"
              /\ Publish(<<"Idle">>)
              /\ supPc' = "select"
              /\ audio_path' = 0
              /\ UNCHANGED <<last_transcript, last_error, updates>>
         [] outcome = "fail" ->
              /\ last_error' = "Transcription failed"
              /\ current_state' = "Idle"
              /\ Publish(<<"Idle">>)
              /\ supPc' = "select"
              /\ audio_path' = 0
              /\ UNCHANGED <<last_transcript, updates>>
    /\ UNCHANGED <<supResult, sessCfg, restore_token, shortcutsUp, desktopUp,
                   recording_handle, streaming_handle, elapsed, taskVars,
                   orphanVars, config, portal_connected, pending_injection,
                   latchVars, token_file, nCaptures, nLive, sig, quitEver, calls,
                   ws, io>>

\* main.rs:357 with injector.rs:60-63: the send completes when the queue
\* has room.
Enqueue ==
    /\ supPc = "enqueue"
    /\ Len(inj_q) < InjectCap
    /\ inj_q' = Append(inj_q, audio_path)
    /\ audio_path' = 0
    /\ supPc' = "select"
    /\ UNCHANGED <<supResult, sessCfg, restore_token, shortcutsUp, desktopUp,
                   current_state, recording_handle, streaming_handle,
                   elapsed, state_ch, inj_cur, st, orphanVars, hubVars,
                   latchVars, token_file, ghostVars, calls, ws, io>>

\* The clock: time passes between two Activated signals.  last_activated
\* is read only while Recording or Streaming (main.rs:199-203) and is set
\* on the way into either (main.rs:224), so the time that passes in the
\* other states is never seen and is not tracked.
Tick(d) ==
    /\ supPc \in LoopPcs
    /\ current_state \in {"Recording", "Streaming"}
    /\ d > elapsed
    /\ elapsed' = d
    /\ UNCHANGED <<supVars, current_state, recording_handle,
                   streaming_handle, audio_path, taskVars, orphanVars,
                   hubVars, latchVars, token_file, ghostVars, calls, ws, io>>


\* ----------------------------------------------------------------------
\* Injector task (injector.rs:39-54)
\* ----------------------------------------------------------------------

\* Mutant: the task starts typing without announcing the text.
InjectorRecv_noReady ==
    /\ supPc \in LoopPcs
    /\ inj_cur = 0
    /\ inj_q # <<>>
    /\ inj_cur' = Head(inj_q)
    /\ inj_q' = Tail(inj_q)
    /\ UNCHANGED <<supVars, loopVars, state_ch, st, orphanVars, hubVars,
                   latchVars, token_file, ghostVars, calls, ws, io>>

\* injector.rs:40-41: a text is received and TranscriptReady is sent.
InjectorRecv ==
    /\ supPc \in LoopPcs
    /\ inj_cur = 0
    /\ inj_q # <<>>
    /\ Len(state_ch) < StateChanCap
    /\ inj_cur' = Head(inj_q)
    /\ inj_q' = Tail(inj_q)
    /\ state_ch' = Append(state_ch, "TranscriptReady")
    /\ UNCHANGED <<supVars, loopVars, st, orphanVars, hubVars, latchVars,
                   token_file, ghostVars, calls, ws, io>>

\* What paste_text (injector.rs:67-98) can return: Ok, an error of the
\* clipboard helper (72-87: wl-copy cannot be run, its pipe breaks, it
\* exits with a failure), or an error of the portal's keyboard calls
\* (93-95).
PasteResults == {"ok", "local", "portal"}

\* Mutant: a failed injection sends Error and keeps no copy of the text.
InjectorFinish_noStash(res) ==
    /\ supPc \in LoopPcs
    /\ inj_cur # 0
    /\ Len(state_ch) < StateChanCap
    /\ inj_cur' = 0
    /\ state_ch' = Append(state_ch,
                          IF res = "ok" THEN "InjectionDone" ELSE "Error")
    /\ pending_injection' = pending_injection
    /\ cyc' = IF cyc.cap = inj_cur
              THEN [cyc EXCEPT !.inj = IF res = "ok" THEN "ok" ELSE "fail"]
              ELSE cyc
    /\ UNCHANGED <<supVars, loopVars, inj_q, st, orphanVars, state, config,
                   portal_connected, last_transcript, last_error, latchVars,
                   token_file, nCaptures, nLive, hist, sig, quitEver,
                   wav, updates,
                   calls, ws, io>>

\* injector.rs:43-52: paste_text has returned res; InjectionDone is sent
\* on Ok, and on any Err the text is stashed and Error is sent: the Err
\* arm does not look at what failed.
InjectorFinish(res) ==
    /\ supPc \in LoopPcs
    /\ inj_cur # 0
    /\ Len(state_ch) < StateChanCap
    /\ inj_cur' = 0
    /\ state_ch' = Append(state_ch,
                          IF res = "ok" THEN "InjectionDone" ELSE "Error")
    /\ pending_injection' = IF res = "ok" THEN pending_injection ELSE inj_cur
    /\ cyc' = IF cyc.cap = inj_cur
              THEN [cyc EXCEPT !.inj = IF res = "ok" THEN "ok" ELSE "fail"]
              ELSE cyc
    /\ UNCHANGED <<supVars, loopVars, inj_q, st, orphanVars, state, config,
                   portal_connected, last_transcript, last_error, latchVars,
                   token_file, nCaptures, nLive, hist, sig, quitEver,
                   wav, updates,
                   calls, ws, io>>

\* An injector task whose session is gone works through what it still
\* holds; its events go to a closed channel (the sends fail, `let _ =`).
OrphanInjectorStep(q, res) ==
    /\ supPc # "returned"
    /\ q \in inj_orphans
    /\ inj_orphans' = (inj_orphans \ {q}) \cup
                      (IF Len(q) > 1 THEN {Tail(q)} ELSE {})
    /\ pending_injection' = IF res = "ok" THEN pending_injection ELSE Head(q)
    /\ UNCHANGED <<supVars, loopVars, taskVars, st_orphans, state, config,
                   portal_connected, last_transcript, last_error, latchVars,
                   token_file, ghostVars, calls, ws, io>>

\* ----------------------------------------------------------------------
\* Streaming task (main.rs:232-256, streaming.rs:21-195)
\* ----------------------------------------------------------------------

\* What the ways a streaming session can end write to last_transcript
\* (streaming.rs:153-158, 172-177) for a task of capture cap with acc
\* deltas received.
StreamWrites(kind, acc) == kind \in {"done", "close"} /\ acc > 0

StreamTranscript(kind, cap, acc) ==
    IF StreamWrites(kind, acc) THEN cap ELSE last_transcript

\* main.rs:250-252: the wrapper records the error of a failed session.
StreamError(kind) ==
    IF kind = "err" THEN "Streaming error" ELSE last_error

StreamEndKinds == {"done", "close", "eos", "err"}

\* Mutant: the task goes on reading frames after its last one.
AfterReturn_keepsRunning(t) == t

\* streaming.rs:160, 165, 179, 184, 189: every way out of the main loop is
\* a return; the task t is over.
AfterReturn(t) == NoTask

\* streaming.rs:139-151: a text delta is typed and accumulated.
StreamDelta ==
    /\ st.alive
    /\ st.acc < MaxDeltas
    /\ st' = [st EXCEPT !.acc = @ + 1]
    /\ UNCHANGED <<supVars, loopVars, state_ch, inj_q, inj_cur, orphanVars,
                   hubVars, latchVars, token_file, ghostVars, calls, ws, io>>

\* streaming.rs:153-190 and main.rs:240-254: the session ends with
\* transcription.done, a close frame, the end of the stream, or an error;
\* InjectionDone is sent to the session loop in every case.
\* Mutant: a run that ends with Err posts nothing.
StreamPosts_errSilent(kind) ==
    IF kind = "err" THEN <<>> ELSE <<"InjectionDone">>

\* The events a streaming task sends before it ends: InjectionDone at
\* transcription.done (streaming.rs:159), at a close frame (178) and at
\* the end of the stream (188), and InjectionDone from the wrapper when
\* run_streaming_session returned Err (main.rs:253).
StreamPosts(kind) == <<"InjectionDone">>

StreamEnd(kind) ==
    /\ st.alive
    /\ Len(state_ch) < StateChanCap
    /\ last_transcript' = StreamTranscript(kind, st.cap, st.acc)
    /\ last_error' = StreamError(kind)
    /\ state_ch' = state_ch \o StreamPosts(kind)
    /\ st' = AfterReturn(st)
    /\ updates' = IF StreamWrites(kind, st.acc) THEN Updated(st.cap)
                  ELSE updates
    /\ UNCHANGED <<supVars, loopVars, inj_q, inj_cur, orphanVars, state,
                   config, portal_connected, pending_injection, latchVars,
                   token_file, nCaptures, nLive, hist, cyc, sig, quitEver,
                   wav, calls, ws, io>>

\* A streaming task whose session is gone: it still types deltas and
\* writes the hub; its InjectionDone goes to a closed channel.
OrphanStreamDelta(o) ==
    /\ supPc # "returned"
    /\ o \in st_orphans
    /\ o.acc < MaxDeltas
    /\ st_orphans' = (st_orphans \ {o}) \cup {[o EXCEPT !.acc = @ + 1]}
    /\ UNCHANGED <<supVars, loopVars, taskVars, inj_orphans, hubVars,
                   latchVars, token_file, ghostVars, calls, ws, io>>

OrphanStreamEnd(o, kind) ==
    /\ supPc # "returned"
    /\ o \in st_orphans
    /\ st_orphans' = st_orphans \ {o}
    /\ last_transcript' = StreamTranscript(kind, o.cap, o.acc)
    /\ last_error' = StreamError(kind)
    /\ updates' = IF StreamWrites(kind, o.acc) THEN Updated(o.cap)
                  ELSE updates
    /\ UNCHANGED <<supVars, loopVars, taskVars, inj_orphans, state, config,
                   portal_connected, pending_injection, latchVars,
                   token_file, nCaptures, nLive, hist, cyc, sig, quitEver,
                   wav, calls, ws, io>>

\* ----------------------------------------------------------------------
\* IPC methods (dbus.rs)
\* ----------------------------------------------------------------------

\* Mutant: the request only wakes a task that is waiting (notify_waiters).
RequestShutdown_noPermit == shutdown_signal' = (supPc \in SessionPcs)

\* dbus.rs:105-107 request_shutdown: Notify::notify_one stores a permit
\* when no task is waiting, and wakes the waiting task otherwise.
RequestShutdown == shutdown_signal' = TRUE

\* dbus.rs:374-378 quit.
Quit ==
    /\ supPc # "returned"
    /\ RequestShutdown
    /\ quitEver' = TRUE
    /\ UNCHANGED <<supVars, loopVars, taskVars, orphanVars, hubVars,
                   restart_signal, token_file, nCaptures, nLive, hist, cyc,
                   sig, wav, updates, calls, ws, io>>

\* dbus.rs:280-312 set_transcriber_config.  parseOk: the JSON parses
\* (285-288); saveOk: Config::save succeeds (293-295).  The hub is
\* written before the save; the restart is requested after it.
SetTranscriberConfig(p, parseOk, saveOk) ==
    /\ supPc # "returned"
    /\ IF parseOk
       THEN /\ config' = [config EXCEPT !.provider = p]
            /\ restart_signal' = (restart_signal \/ saveOk)
       ELSE UNCHANGED <<config, restart_signal>>
    /\ UNCHANGED <<supVars, loopVars, taskVars, orphanVars, state,
                   portal_connected, last_transcript, last_error,
                   pending_injection, shutdown_signal, token_file,
                   ghostVars, calls, ws, io>>

\* dbus.rs:245-278 set_shortcut, served without another call in between.
SetShortcut(v, saveOk) ==
    /\ supPc # "returned"
    /\ config' = [config EXCEPT !.trigger = v]
    /\ restart_signal' = (restart_signal \/ saveOk)
    /\ UNCHANGED <<supVars, loopVars, taskVars, orphanVars, state,
                   portal_connected, last_transcript, last_error,
                   pending_injection, shutdown_signal, token_file,
                   ghostVars, calls, ws, io>>

\* dbus.rs:314-346 set_injection_config, likewise.
SetInjectionConfig(d, parseOk, saveOk) ==
    /\ supPc # "returned"
    /\ IF parseOk
       THEN /\ config' = [config EXCEPT !.typing_delay_ms = d]
            /\ restart_signal' = (restart_signal \/ saveOk)
       ELSE UNCHANGED <<config, restart_signal>>
    /\ UNCHANGED <<supVars, loopVars, taskVars, orphanVars, state,
                   portal_connected, last_transcript, last_error,
                   pending_injection, shutdown_signal, token_file,
                   ghostVars, calls, ws, io>>

\* dbus.rs:348-363 set_audio, likewise.
SetAudio(a, saveOk) ==
    /\ supPc # "returned"
    /\ config' = [config EXCEPT !.sample_rate = a[1], !.channels = a[2]]
    /\ restart_signal' = (restart_signal \/ saveOk)
    /\ UNCHANGED <<supVars, loopVars, taskVars, orphanVars, state,
                   portal_connected, last_transcript, last_error,
                   pending_injection, shutdown_signal, token_file,
                   ghostVars, calls, ws, io>>

\* ----------------------------------------------------------------------
\* IPC methods step by step (dbus.rs:196-372): calls served concurrently
\* interleave at the hub lock, at the save and at the awaits
\* ----------------------------------------------------------------------

SetMethods == {"set_shortcut", "set_transcriber_config",
               "set_injection_config", "set_audio"}

\* JSON texts a client may send to set_transcriber_config: not JSON, an
\* object without "provider", and an object naming a provider.
TranscriberJsons ==
    {[valid |-> FALSE, provider |-> "absent"]}
    \cup {[valid |-> TRUE, provider |-> p] : p \in Providers \cup {"absent"}}

\* The same for set_injection_config; -1 stands for a missing
\* "typing_delay_ms".
InjectionJsons ==
    {[valid |-> FALSE, typing_delay_ms |-> -1]}
    \cup {[valid |-> TRUE, typing_delay_ms |-> d] : d \in Delays \cup {-1}}

\* dbus.rs:285-288 serde_json::from_str::<TranscriberConfig>: a missing
\* field takes its default (lib.rs:55-58, 124-137).
from_str_transcriber(j) ==
    IF j.provider = "absent" THEN "WhisperCpp" ELSE j.provider

\* dbus.rs:319-322 serde_json::from_str::<InjectionConfig> (lib.rs:181-188).
from_str_injection(j) ==
    IF j.typing_delay_ms = -1 THEN 5 ELSE j.typing_delay_ms

\* dbus.rs:203-228 the property getters.
shortcut_trigger(cfg) == cfg.trigger
transcriber_config(cfg) == [valid |-> TRUE, provider |-> cfg.provider]
injection_config(cfg) ==
    [valid |-> TRUE, typing_delay_ms |-> cfg.typing_delay_ms]
sample_rate(cfg) == cfg.sample_rate
channels(cfg) == cfg.channels

\* The arguments a method may be called with.
Inputs(m) ==
    CASE m = "set_shortcut" -> Triggers
      [] m = "set_transcriber_config" -> TranscriberJsons
      [] m = "set_injection_config" -> InjectionJsons
      [] m = "set_audio" -> Audios

\* dbus.rs:285-288, 319-322: the argument parses.
Valid(m, v) ==
    IF m \in {"set_transcriber_config", "set_injection_config"}
    THEN v.valid ELSE TRUE

\* The property that matches a method, as a client reads it.
Property(m, cfg) ==
    CASE m = "set_shortcut" -> shortcut_trigger(cfg)
      [] m = "set_transcriber_config" -> transcriber_config(cfg)
      [] m = "set_injection_config" -> injection_config(cfg)
      [] m = "set_audio" -> <<sample_rate(cfg), channels(cfg)>>

\* What the property shows when it holds the value of argument v.
Requested(m, v) ==
    CASE m = "set_shortcut" -> v
      [] m = "set_transcriber_config" ->
            [valid |-> TRUE, provider |-> from_str_transcriber(v)]
      [] m = "set_injection_config" ->
            [valid |-> TRUE, typing_delay_ms |-> from_str_injection(v)]
      [] m = "set_audio" -> v

\* Mutant: set_shortcut forgets to write the hub.
HubWrite_dropsShortcut(m, cfg, v) ==
    CASE m = "set_shortcut" -> cfg
      [] m = "set_transcriber_config" ->
            [cfg EXCEPT !.provider = from_str_transcriber(v)]
      [] m = "set_injection_config" ->
            [cfg EXCEPT !.typing_delay_ms = from_str_injection(v)]
      [] m = "set_audio" ->
            [cfg EXCEPT !.sample_rate = v[1], !.channels = v[2]]

\* dbus.rs:250-253, 289-292, 323-326, 353-357: the write under the lock.
HubWrite(m, cfg, v) ==
    CASE m = "set_shortcut" -> [cfg EXCEPT !.trigger = v]
      [] m = "set_transcriber_config" ->
            [cfg EXCEPT !.provider = from_str_transcriber(v)]
      [] m = "set_injection_config" ->
            [cfg EXCEPT !.typing_delay_ms = from_str_injection(v)]
      [] m = "set_audio" ->
            [cfg EXCEPT !.sample_rate = v[1], !.channels = v[2]]

\* What the IPC methods leave alone.
nonIpcVars == <<supVars, loopVars, taskVars, orphanVars, state,
                portal_connected, last_transcript, last_error,
                pending_injection, shutdown_signal, token_file, ghostVars,
                ws, io>>

SlotFree(c) == calls[c].pc \in {"idle", "ok", "err"}

\* A set_* call arrives: the argument is parsed and, if it parses, the
\* hub is written.  changed: the property differs from what it was;
\* seen: the property shows the requested value.
CallBegin(c, m, v) ==
    /\ SlotFree(c)
    /\ IF Valid(m, v)
       THEN /\ config' = HubWrite(m, config, v)
            /\ calls' = [calls EXCEPT ![c] =
                  [IdleCall EXCEPT
                     !.m = m, !.pc = "written",
                     !.changed = (Property(m, config') # Property(m, config)),
                     !.seen = (Property(m, config') = Requested(m, v))]]
       ELSE /\ config' = config
            /\ calls' = [calls EXCEPT ![c] =
                  [IdleCall EXCEPT !.m = m, !.pc = "err"]]
    /\ UNCHANGED <<nonIpcVars, restart_signal>>

\* dbus.rs:254-257, 293-295, 327-329, 358-360: the hub's config is saved;
\* a failure returns the error to the caller.
CallSave(c, saveOk) ==
    /\ calls[c].pc = "written"
    /\ calls' = [calls EXCEPT ![c] =
          IF saveOk THEN [@ EXCEPT !.pc = "saved", !.saved = TRUE]
          ELSE [@ EXCEPT !.pc = "err"]]
    /\ UNCHANGED <<nonIpcVars, restart_signal, config>>

\* dbus.rs:263-273, 297-307, 331-341: the property-changed signal of the
\* method's property is emitted.  set_audio has no such step.
CallNotify(c) ==
    /\ calls[c].pc = "saved"
    /\ calls[c].m \in SetMethods \ {"set_audio"}
    /\ calls' = [calls EXCEPT ![c] =
          [@ EXCEPT !.pc = "notified", !.notified = TRUE]]
    /\ UNCHANGED <<nonIpcVars, restart_signal, config>>

\* dbus.rs:275-277, 309-311, 343-345, 361-362: the restart is requested
\* and the method returns Ok.
CallReturn(c) ==
    /\ \/ calls[c].pc = "notified"
       \/ calls[c].pc = "saved" /\ calls[c].m = "set_audio"
    /\ request_session_restart
    /\ calls' = [calls EXCEPT ![c] = [@ EXCEPT !.pc = "ok"]]
    /\ UNCHANGED <<nonIpcVars, config>>

\* dbus.rs:366-368 reload_config: Config::load reads the file, which the
\* user may have edited: it yields any config, or fails.
ReloadBegin(c, loadOk, cfg) ==
    /\ SlotFree(c)
    /\ calls' = [calls EXCEPT ![c] =
          IF loadOk
          THEN [IdleCall EXCEPT !.m = "reload_config", !.pc = "loaded",
                                !.val = cfg]
          ELSE [IdleCall EXCEPT !.m = "reload_config", !.pc = "err"]]
    /\ UNCHANGED <<nonIpcVars, restart_signal, config>>

\* dbus.rs:369-371 update_config replaces the hub's config; the method
\* returns Ok.
ReloadUpdate(c) ==
    /\ calls[c].pc = "loaded"
    /\ config' = calls[c].val
    /\ calls' = [calls EXCEPT ![c] =
          [@ EXCEPT !.pc = "ok", !.changed = (config' # config),
                    !.val = IdleCall.val]]
    /\ UNCHANGED <<nonIpcVars, restart_signal>>

\* The configs the file may hold when it is reloaded: the defaults, and
\* one in which the user has edited every field.
FileConfigs ==
    {DefaultConfig("WhisperCpp"),
     [provider |-> "MistralRealtime", trigger |-> "<Control>F10",
      typing_delay_ms |-> 20, sample_rate |-> 48000, channels |-> 2]}

IpcNext ==
    \/ \E c \in CallIds, m \in SetMethods : \E v \in Inputs(m) :
          CallBegin(c, m, v)
    \/ \E c \in CallIds, saveOk \in BOOLEAN : CallSave(c, saveOk)
    \/ \E c \in CallIds : CallNotify(c)
    \/ \E c \in CallIds : CallReturn(c)
    \/ \E c \in CallIds, loadOk \in BOOLEAN, cfg \in FileConfigs :
          ReloadBegin(c, loadOk, cfg)
    \/ \E c \in CallIds : ReloadUpdate(c)

\* The IPC surface alone: calls arrive and are served in any interleaving.
IpcSpec == Init /\ [][IpcNext]_vars

\* ----------------------------------------------------------------------
\* One run of run_streaming_session, frame by frame (streaming.rs:21-195)
\* with the inject_text it calls (injector.rs:101-118) and the wrapper
\* that spawned it (main.rs:239-255).  Texts are sequences of characters
\* here; the session loop and the audio thread are the environment.
\* ----------------------------------------------------------------------

\* Frames the server may send in one run, and audio chunks the capture
\* may deliver.
MaxFrames == 3
MaxChunks == 1

\* injector.rs:14  const XKB_KEY_RETURN
XKB_KEY_RETURN == 65293

\* injector.rs:15  const XKB_KEY_TAB
XKB_KEY_TAB == 65289

\* Characters of the texts: a letter, the line ends and the tab.
Chars == {"a", "\n", "\r", "\t"}

\* injector.rs:121-135 char_to_keysym; the keysym of a Latin-1 letter is
\* its code point.  0 is "no keysym": the character is skipped.
char_to_keysym(ch) ==
    CASE ch = "\n" -> XKB_KEY_RETURN
      [] ch = "\t" -> XKB_KEY_TAB
      [] ch = "\r" -> 0
      [] ch = "a" -> 97

\* The text field of a server message (streaming.rs:137, Option<String>).
NoText == [some |-> FALSE, s |-> <<>>]
SomeText(d) == [some |-> TRUE, s |-> d]
Deltas == {<<"a">>, <<"\r", "\n">>, <<>>}

\* What ws_source.next() can yield (streaming.rs:65-76, 134-191): a text
\* message of some type, a close frame, another kind of message (ping,
\* binary), a transport error, or the end of the stream.
TextTypes == {"session.created", "transcription.text.delta",
              "transcription.done", "error", "other"}
ServerItems ==
    {[kind |-> "Text", type |-> "transcription.text.delta", text |-> d] :
        d \in {SomeText(x) : x \in Deltas} \cup {NoText}}
    \cup {[kind |-> "Text", type |-> t, text |-> NoText] :
            t \in TextTypes \ {"transcription.text.delta"}}
    \cup {[kind |-> k, type |-> "", text |-> NoText] :
            k \in {"Close", "Ping", "Err", "None"}}

RECURSIVE Flatten(_)
Flatten(ds) == IF ds = <<>> THEN <<>> ELSE Head(ds) \o Flatten(Tail(ds))

\* A run that has not begun: connect_async is being awaited.
IdleWs ==
    [pc |-> "connect",
     sent |-> <<>>,               \* frames sent to the server, by type
     created |-> FALSE,           \* session.created has been received
     draining |-> FALSE,          \* streaming.rs:96
     stop_rx |-> TRUE,            \* streaming.rs:97  stop_rx.is_some()
     stopped |-> FALSE,           \* the oneshot was sent on, or dropped
     chunks |-> 0,                \* chunks waiting in audio_rx
     captured |-> 0,              \* chunks the capture has delivered
     closed |-> FALSE,            \* the sender of audio_rx is dropped
     accumulated_transcript |-> <<>>,   \* streaming.rs:95
     delta |-> <<>>,              \* the delta inject_text is typing
     rest |-> <<>>,               \* its characters still to be typed
     typed |-> <<>>,              \* keysyms tapped so far
     received |-> <<>>,           \* the deltas received, in order
     failed |-> FALSE,            \* a delta was not typed to its end
     nFrames |-> 0,               \* server items received
     end |-> "none"]              \* how the run ended

\* Mutant: the new delta is put in front of the text received so far.
push_str_front(acc, delta) == delta \o acc

\* streaming.rs:150  accumulated_transcript.push_str(&delta)
push_str(acc, delta) == acc \o delta

\* streaming.rs:58  connect_async(request).await?
WsConnect(ok) ==
    /\ ws.pc = "connect"
    /\ ws' = IF ok THEN [ws EXCEPT !.pc = "created_wait"]
             ELSE [ws EXCEPT !.pc = "err", !.end = "connect"]
    /\ UNCHANGED <<supVars, loopVars, taskVars, orphanVars, hubVars,
                   latchVars, token_file, ghostVars, calls, io>>

\* streaming.rs:63-77: the wait for session.created.  Every other text
\* message and every non-text message is passed over; an error or the end
\* of the stream ends the run with Err.
WsAwaitCreated(item) ==
    /\ ws.pc = "created_wait"
    /\ ws.nFrames < MaxFrames
    /\ ws' = [ws EXCEPT
          !.nFrames = @ + 1,
          !.created = (item.kind = "Text" /\ item.type = "session.created"),
          !.pc = IF item.kind = "Text" /\ item.type = "session.created"
                 THEN "update"
                 ELSE IF item.kind \in {"Err", "None"} THEN "err"
                 ELSE @,
          !.end = IF item.kind \in {"Err", "None"} THEN "no session"
                  ELSE @]
    /\ UNCHANGED <<supVars, loopVars, taskVars, orphanVars, hubVars,
                   latchVars, token_file, ghostVars, calls, io>>

\* streaming.rs:79-92: session.update is sent.
WsSessionUpdate(ok) ==
    /\ ws.pc = "update"
    /\ ws' = IF ok
             THEN [ws EXCEPT !.pc = "loop",
                             !.sent = Append(@, "session.update")]
             ELSE [ws EXCEPT !.pc = "err", !.end = "send"]
    /\ UNCHANGED <<supVars, loopVars, taskVars, orphanVars, hubVars,
                   latchVars, token_file, ghostVars, calls, io>>

\* Mutant: the audio arm stays enabled while draining.
AudioArmEnabled_always == TRUE

\* streaming.rs:102  the guard `if !draining` of the audio arm.
AudioArmEnabled == ~ws.draining

\* streaming.rs:102-121: the audio arm of the select.  A chunk is sent as
\* input_audio.append; a closed channel is answered with input_audio.end
\* and drain mode.
WsAudio(ok) ==
    /\ ws.pc = "loop"
    /\ AudioArmEnabled
    /\ ws.chunks > 0 \/ ws.closed
    /\ ws' = IF ~ok THEN [ws EXCEPT !.pc = "err", !.end = "send"]
             ELSE IF ws.chunks > 0
             THEN [ws EXCEPT !.chunks = @ - 1,
                             !.sent = Append(@, "input_audio.append")]
             ELSE [ws EXCEPT !.sent = Append(@, "input_audio.end"),
                             !.draining = TRUE]
    /\ UNCHANGED <<supVars, loopVars, taskVars, orphanVars, hubVars,
                   latchVars, token_file, ghostVars, calls, io>>

\* streaming.rs:124-131: the stop arm.  The oneshot resolves when it was
\* sent on and when its sender was dropped; either is taken as the stop.
WsStop(ok) ==
    /\ ws.pc = "loop"
    /\ ws.stop_rx /\ ~ws.draining
    /\ ws.stopped
    /\ ws' = IF ok
             THEN [ws EXCEPT !.sent = Append(@, "input_audio.end"),
                             !.draining = TRUE, !.stop_rx = FALSE]
             ELSE [ws EXCEPT !.pc = "err", !.end = "send"]
    /\ UNCHANGED <<supVars, loopVars, taskVars, orphanVars, hubVars,
                   latchVars, token_file, ghostVars, calls, io>>

\* streaming.rs:134-191: the server arm, for everything but the end of
\* the run.  A delta with a text goes to inject_text, which is awaited in
\* the arm: the select is not polled again before it has returned.
WsServer(item) ==
    /\ ws.pc = "loop"
    /\ ws.nFrames < MaxFrames
    /\ \/ item.kind = "Ping"
       \/ item.kind = "Text"
          /\ item.type \in {"transcription.text.delta", "other",
                            "session.created"}
    /\ ws' = IF item.kind = "Text"
                /\ item.type = "transcription.text.delta"
                /\ item.text.some
             THEN [ws EXCEPT !.nFrames = @ + 1, !.pc = "typing",
                             !.delta = item.text.s, !.rest = item.text.s,
                             !.received = Append(@, item.text.s)]
             ELSE [ws EXCEPT !.nFrames = @ + 1]
    /\ UNCHANGED <<supVars, loopVars, taskVars, orphanVars, hubVars,
                   latchVars, token_file, ghostVars, calls, io>>

\* What a tap of a key through the portal can come to (streaming.rs:
\* 142-148): Ok, a portal error, a local error.
TapResults == {"ok", "portal", "local"}

\* injector.rs:105-114 one turn of the loop of inject_text, and
\* streaming.rs:141-151 when the loop is over: a character without a
\* keysym is skipped, the others are tapped in order; a portal error ends
\* the run, a local error ends the typing of this delta; the delta is
\* added to the transcript unless the run ends.
WsInject(res) ==
    /\ ws.pc = "typing"
    /\ IF ws.rest = <<>>
       THEN ws' = [ws EXCEPT
               !.pc = "loop", !.delta = <<>>,
               !.accumulated_transcript = push_str(@, ws.delta)]
       ELSE IF char_to_keysym(Head(ws.rest)) = 0
       THEN ws' = [ws EXCEPT !.rest = Tail(@)]
       ELSE CASE res = "ok" ->
                   ws' = [ws EXCEPT
                      !.rest = Tail(@),
                      !.typed = Append(@, char_to_keysym(Head(ws.rest)))]
              [] res = "portal" ->
                   ws' = [ws EXCEPT !.pc = "err", !.end = "portal",
                                    !.failed = TRUE]
              [] res = "local" ->
                   ws' = [ws EXCEPT
                      !.pc = "loop", !.delta = <<>>, !.rest = <<>>,
                      !.failed = TRUE,
                      !.accumulated_transcript = push_str(@, ws.delta)]
    /\ UNCHANGED <<supVars, loopVars, taskVars, orphanVars, hubVars,
                   latchVars, token_file, ghostVars, calls, io>>

\* streaming.rs:153-158, 172-177: transcription.done or a close frame; a
\* transcript that is not empty is written to the hub, and the
\* notification is awaited.
WsFinal(item) ==
    /\ ws.pc = "loop"
    /\ \/ item.kind = "Text" /\ item.type = "transcription.done"
       \/ item.kind = "Close"
    /\ ws' = [ws EXCEPT !.pc = "notify",
                        !.end = IF item.kind = "Close" THEN "close"
                                ELSE item.type]
    /\ last_transcript' = IF ws.accumulated_transcript # <<>>
                          THEN ws.accumulated_transcript
                          ELSE last_transcript
    /\ UNCHANGED <<supVars, loopVars, taskVars, orphanVars, state, config,
                   portal_connected, last_error, pending_injection,
                   latchVars, token_file, ghostVars, calls, io>>

\* streaming.rs:162-166, 182-185: an error message of the server or an
\* error of the transport ends the run with Err.
WsError(item) ==
    /\ ws.pc = "loop"
    /\ \/ item.kind = "Text" /\ item.type = "error"
       \/ item.kind = "Err"
    /\ ws' = [ws EXCEPT !.pc = "err",
                        !.end = IF item.kind = "Err" THEN "transport"
                                ELSE item.type]
    /\ UNCHANGED <<supVars, loopVars, taskVars, orphanVars, hubVars,
                   latchVars, token_file, ghostVars, calls, io>>

\* streaming.rs:159-160, 178-179, 186-190: InjectionDone is sent and the
\* run returns Ok; the end of the stream comes here directly.
WsInjectionDone ==
    /\ \/ ws.pc = "notify"
       \/ ws.pc = "loop"
    /\ Len(state_ch) < StateChanCap
    /\ ws' = [ws EXCEPT !.pc = "ok",
                        !.end = IF ws.pc = "loop" THEN "stream end" ELSE @]
    /\ state_ch' = Append(state_ch, "InjectionDone")
    /\ UNCHANGED <<supVars, loopVars, inj_q, inj_cur, st, orphanVars,
                   hubVars, latchVars, token_file, ghostVars, calls, io>>

\* main.rs:250-253: the wrapper of the spawned task takes the Err,
\* writes last_error and sends InjectionDone.
WsWrapper ==
    /\ ws.pc = "err"
    /\ Len(state_ch) < StateChanCap
    /\ ws' = [ws EXCEPT !.pc = "reported"]
    /\ last_error' = "Streaming error"
    /\ state_ch' = Append(state_ch, "InjectionDone")
    /\ UNCHANGED <<supVars, loopVars, inj_q, inj_cur, st, orphanVars,
                   state, config, portal_connected, last_transcript,
                   pending_injection, latchVars, token_file, ghostVars,
                   calls, io>>

\* recorder.rs:46-54: the audio thread delivers a chunk (try_send: it is
\* dropped when the channel is full).
WsCapture ==
    /\ ws.pc \notin {"ok", "reported"}
    /\ ~ws.closed
    /\ ws.captured < MaxChunks
    /\ ws' = [ws EXCEPT !.chunks = @ + 1, !.captured = @ + 1]
    /\ UNCHANGED <<supVars, loopVars, taskVars, orphanVars, hubVars,
                   latchVars, token_file, ghostVars, calls, io>>

\* main.rs:397-401 stop_streaming, or the drop of the StreamingState
\* (main.rs:308-310, and when the session ends): the capture stops,
\* which closes the audio channel, and the oneshot fires.
WsStopStreaming ==
    /\ ws.pc \notin {"ok", "reported"}
    /\ ~ws.stopped
    /\ ws' = [ws EXCEPT !.closed = TRUE, !.stopped = TRUE]
    /\ UNCHANGED <<supVars, loopVars, taskVars, orphanVars, hubVars,
                   latchVars, token_file, ghostVars, calls, io>>

\* Texts the hub may hold from an earlier cycle.
OldTranscripts == {<<>>, <<"a", "a">>}

WsNext ==
    \/ \E ok \in BOOLEAN : WsConnect(ok)
    \/ \E item \in ServerItems : WsAwaitCreated(item)
    \/ \E ok \in BOOLEAN : WsSessionUpdate(ok)
    \/ \E ok \in BOOLEAN : WsAudio(ok)
    \/ \E ok \in BOOLEAN : WsStop(ok)
    \/ \E item \in ServerItems : WsServer(item)
    \/ \E res \in TapResults : WsInject(res)
    \/ \E item \in ServerItems : WsFinal(item)
    \/ \E item \in ServerItems : WsError(item)
    \/ WsInjectionDone
    \/ WsWrapper
    \/ WsCapture
    \/ WsStopStreaming

\* ----------------------------------------------------------------------
\* Specifications
\* ----------------------------------------------------------------------

Setup ==
    \/ \E ok \in BOOLEAN : ShortcutsCreate(ok)
    \/ \E ok \in BOOLEAN, newTok \in BOOLEAN : DesktopCreate(ok, newTok, "ok")
    \/ \E ok \in BOOLEAN, newTok \in BOOLEAN : DesktopRetry(ok, newTok, "ok")
    \/ \E ok \in BOOLEAN : StreamsReady(ok)

Supervisor ==
    \/ LoopHead
    \/ SupPublishRecovering
    \/ SupBackoffDone
    \/ SupShutdown

Signals ==
    \/ \E id \in {ShortcutId, ForeignId}, devOk \in BOOLEAN :
          Activated(id, devOk)
    \/ Deactivated
    \/ \E d \in Gaps : Tick(d)

SessionLoop ==
    \/ StateEvent
    \/ RestartArm
    \/ \E outcome \in {"text", "empty", "fail"} : TranscribeDone(outcome)
    \/ Enqueue

Tasks ==
    \/ InjectorRecv
    \/ \E res \in PasteResults : InjectorFinish(res)
    \/ StreamDelta
    \/ \E kind \in StreamEndKinds : StreamEnd(kind)

Orphans ==
    \/ \E q \in inj_orphans, res \in PasteResults :
          OrphanInjectorStep(q, res)
    \/ \E o \in st_orphans : OrphanStreamDelta(o)
    \/ \E o \in st_orphans, kind \in StreamEndKinds : OrphanStreamEnd(o, kind)

Ipc ==
    \/ Quit
    \/ \E p \in Providers, parseOk \in BOOLEAN, saveOk \in BOOLEAN :
          SetTranscriberConfig(p, parseOk, saveOk)
    \/ \E saveOk \in BOOLEAN : SetShortcut(config.trigger, saveOk)
    \/ \E parseOk \in BOOLEAN, saveOk \in BOOLEAN :
          SetInjectionConfig(config.typing_delay_ms, parseOk, saveOk)
    \/ \E saveOk \in BOOLEAN :
          SetAudio(<<config.sample_rate, config.channels>>, saveOk)

Next == Setup \/ Supervisor \/ Signals \/ SessionLoop \/ Tasks \/ Orphans
        \/ Ipc

Spec == Init /\ [][Next]_vars

\* The runtime polls every task that can run and every sleep ends: each
\* step of the supervisor, of the session loop and of the spawned tasks
\* is taken if it stays possible.  The portal answers every call.
\* Signals, IPC calls and the passing of time are not forced.
FairSpec ==
    /\ Spec
    /\ WF_vars(LoopHead)
    /\ WF_vars(SupPublishRecovering)
    /\ WF_vars(SupBackoffDone)
    /\ WF_vars(SupShutdown)
    /\ WF_vars(Setup)
    /\ WF_vars(SessionLoop)
    /\ WF_vars(Tasks)
    /\ WF_vars(Orphans)


\* The set-up of sessions with everything the token file can be and
\* every outcome of the save: the file may have been placed by hand (mode
\* 0644), and sessions follow one another through failures and restarts.
TokenInit ==
    /\ supPc = "start"
    /\ supResult = "none"
    /\ config \in {DefaultConfig(p) : p \in Providers}
    /\ sessCfg = config
    /\ restore_token = FALSE
    /\ shortcutsUp = FALSE
    /\ desktopUp = FALSE
    /\ current_state = None
    /\ recording_handle = 0
    /\ streaming_handle = 0
    /\ elapsed = 0
    /\ audio_path = 0
    /\ state_ch = <<>>
    /\ inj_q = <<>>
    /\ inj_cur = 0
    /\ st = NoTask
    /\ inj_orphans = {}
    /\ st_orphans = {}
    /\ state = "Idle"
    /\ portal_connected = FALSE
    /\ last_transcript = 0
    /\ last_error = ""
    /\ pending_injection = 0
    /\ restart_signal = FALSE
    /\ shutdown_signal = FALSE
    /\ token_file \in TokenFiles
    /\ nCaptures = 0
    /\ nLive = 0
    /\ hist = <<"Idle">>
    /\ cyc = NoCycle
    /\ sig = "none"
    /\ quitEver = FALSE
    /\ wav = {}
    /\ updates = [c \in CaptureIds |-> 0]
    /\ calls = [c \in CallIds |-> IdleCall]
    /\ ws = NoWs
    /\ io = NoIo

TokenNext ==
    \/ LoopHead
    \/ \E ok \in BOOLEAN : ShortcutsCreate(ok)
    \/ \E ok \in BOOLEAN, newTok \in BOOLEAN, res \in SaveResults :
          DesktopCreate(ok, newTok, res)
    \/ \E ok \in BOOLEAN, newTok \in BOOLEAN, res \in SaveResults :
          DesktopRetry(ok, newTok, res)
    \/ \E ok \in BOOLEAN : StreamsReady(ok)
    \/ SupPublishRecovering
    \/ SupBackoffDone
    \/ SupShutdown
    \/ RestartArm
    \/ Quit
    \/ \E p \in Providers, parseOk \in BOOLEAN, saveOk \in BOOLEAN :
          SetTranscriberConfig(p, parseOk, saveOk)

TokenSpec == TokenInit /\ [][TokenNext]_vars

\* One streaming run from connect to its end, with the server, the audio
\* thread and the session loop's stop as the environment.  The hub may
\* hold the transcript of an earlier cycle.
WsInit ==
    /\ supPc = "start"
    /\ supResult = "none"
    /\ config \in {DefaultConfig(p) : p \in Providers}
    /\ sessCfg = config
    /\ restore_token = FALSE
    /\ shortcutsUp = FALSE
    /\ desktopUp = FALSE
    /\ current_state = None
    /\ recording_handle = 0
    /\ streaming_handle = 0
    /\ elapsed = 0
    /\ audio_path = 0
    /\ state_ch = <<>>
    /\ inj_q = <<>>
    /\ inj_cur = 0
    /\ st = NoTask
    /\ inj_orphans = {}
    /\ st_orphans = {}
    /\ state = "Idle"
    /\ portal_connected = FALSE
    /\ last_transcript \in OldTranscripts
    /\ last_error = ""
    /\ pending_injection = 0
    /\ restart_signal = FALSE
    /\ shutdown_signal = FALSE
    /\ token_file = NoFile
    /\ nCaptures = 0
    /\ nLive = 0
    /\ hist = <<"Idle">>
    /\ cyc = NoCycle
    /\ sig = "none"
    /\ quitEver = FALSE
    /\ wav = {}
    /\ updates = [c \in CaptureIds |-> 0]
    /\ calls = [c \in CallIds |-> IdleCall]
    /\ ws = IdleWs
    /\ io = NoIo

WsSpec == WsInit /\ [][WsNext]_vars

\* ----------------------------------------------------------------------
\* Config::load_from_str (config.rs:143-166)
\* ----------------------------------------------------------------------

\* The state around a conversion: no session, an empty hub.
IoInit(starts) ==
    /\ supPc = "start"
    /\ supResult = "none"
    /\ config \in {DefaultConfig(p) : p \in Providers}
    /\ sessCfg = config
    /\ restore_token = FALSE
    /\ shortcutsUp = FALSE
    /\ desktopUp = FALSE
    /\ current_state = None
    /\ recording_handle = 0
    /\ streaming_handle = 0
    /\ elapsed = 0
    /\ audio_path = 0
    /\ state_ch = <<>>
    /\ inj_q = <<>>
    /\ inj_cur = 0
    /\ st = NoTask
    /\ inj_orphans = {}
    /\ st_orphans = {}
    /\ state = "Idle"
    /\ portal_connected = FALSE
    /\ last_transcript = <<>>
    /\ last_error = ""
    /\ pending_injection = 0
    /\ restart_signal = FALSE
    /\ shutdown_signal = FALSE
    /\ token_file = NoFile
    /\ nCaptures = 0
    /\ nLive = 0
    /\ hist = <<"Idle">>
    /\ cyc = NoCycle
    /\ sig = "none"
    /\ quitEver = FALSE
    /\ wav = {}
    /\ updates = [c \in CaptureIds |-> 0]
    /\ calls = [c \in CallIds |-> IdleCall]
    /\ ws = NoWs
    /\ io \in starts

\* A key of a table as a file has it: absent, present with a value of the
\* type the schema gives it, or present with a value of another type.
AbsentKey(zero) == [kind |-> "absent", v |-> zero]
TypedKey(x) == [kind |-> "typed", v |-> x]
MistypedKey(zero) == [kind |-> "mistyped", v |-> zero]

\* config.rs:67-69  default_sample_rate
default_sample_rate == 16000

\* config.rs:55-57  default_shortcut_trigger
default_shortcut_trigger == "<Super>space"

\* lib.rs:138-145  impl Default for WhisperCppConfig
DefaultWhisperCpp == [command |-> "whisper-cpp", args |-> <<>>]

\* A [transcriber.whisper_cpp] table: absent, with both of its keys, or
\* with the command alone (args has no default, lib.rs:66-69).
WhisperCppTables ==
    {[kind |-> "absent", command |-> "", args |-> <<>>],
     [kind |-> "full", command |-> "whisper-new", args |-> <<"-t", "4">>],
     [kind |-> "partial", command |-> "whisper-new", args |-> <<>>]}

\* The config files: the [shortcut] trigger, the [audio] sample rate, and
\* a [transcriber] table with the bare command and args of the old
\* format, the provider and the whisper_cpp table of the new one.
ConfigFiles ==
    {f \in [trigger : {AbsentKey(""), TypedKey("<Control>d")},
            sample_rate : {AbsentKey(0), TypedKey(48000)},
            section : BOOLEAN,
            command : {AbsentKey(""), TypedKey("my-whisper"),
                       MistypedKey("")},
            args : {AbsentKey(<<>>), TypedKey(<<>>),
                    TypedKey(<<"-m", "model.bin">>), MistypedKey(<<>>)},
            provider : {AbsentKey(""), TypedKey("mistral")},
            whisper_cpp : WhisperCppTables] :
        f.section \/ (/\ f.command.kind = "absent"
                      /\ f.args.kind = "absent"
                      /\ f.provider.kind = "absent"
                      /\ f.whisper_cpp.kind = "absent")}

\* serde's #[serde(default)]: the key's value, or the default.
KeyOr(key, default) == IF key.kind = "typed" THEN key.v ELSE default

\* config.rs:9-21 with lib.rs:124-136: toml::from_str::<Config>.  Keys the
\* structs do not name (the bare command and args) are passed over
\* whatever their values; a whisper_cpp table without args is an error.
ParseConfig(f) ==
    [ok |-> f.whisper_cpp.kind # "partial",
     trigger |-> KeyOr(f.trigger, default_shortcut_trigger),
     sample_rate |-> KeyOr(f.sample_rate, default_sample_rate),
     provider |-> KeyOr(f.provider, "whisper-cpp"),
     whisper_cpp |-> IF f.whisper_cpp.kind = "full"
                     THEN [command |-> f.whisper_cpp.command,
                           args |-> f.whisper_cpp.args]
                     ELSE DefaultWhisperCpp]

\* config.rs:116-128: toml::from_str::<LegacyConfig>.  transcriber is an
\* Option, command and args are Options in it; a value of the wrong type
\* fails the whole parse.
ParseLegacy(f) ==
    [ok |-> f.command.kind # "mistyped" /\ f.args.kind # "mistyped",
     some |-> f.section,
     command |-> f.command,
     args |-> f.args]

\* Mutant: a legacy value is read and not put into the config.
Migrated_not(old, legacy) == old

\* config.rs:153-158  if let Some(x) = legacy_t.x { config...x = x; }
Migrated(old, legacy) == IF legacy.kind = "typed" THEN legacy.v ELSE old

\* config.rs:143-166 load_from_str.  ok is FALSE for Err.
load_from_str(f) ==
    LET parsed == ParseConfig(f)
        legacy == ParseLegacy(f)
    IN  IF legacy.ok /\ legacy.some
        THEN [parsed EXCEPT
                !.whisper_cpp.command = Migrated(@, legacy.command),
                !.whisper_cpp.args = Migrated(@, legacy.args)]
        ELSE parsed

\* config.rs:131-141 Config::load with the file's contents read.
ConfigLoad ==
    /\ io.pc = "file"
    /\ io' = [io EXCEPT !.pc = "loaded", !.config = load_from_str(io.file)]
    /\ UNCHANGED <<supVars, loopVars, taskVars, orphanVars, hubVars,
                   latchVars, token_file, ghostVars, calls, ws>>

CfgStarts ==
    {[pc |-> "file", file |-> f, config |-> ParseConfig(
         [trigger |-> AbsentKey(""), sample_rate |-> AbsentKey(0),
          section |-> FALSE, command |-> AbsentKey(""),
          args |-> AbsentKey(<<>>), provider |-> AbsentKey(""),
          whisper_cpp |-> [kind |-> "absent", command |-> "",
                           args |-> <<>>]])] : f \in ConfigFiles}

CfgInit == IoInit(CfgStarts)

CfgNext == ConfigLoad

CfgSpec == CfgInit /\ [][CfgNext]_vars

\* ----------------------------------------------------------------------
\* TranscriberConfig and its JSON (lib.rs:54-177, dbus.rs:208-212, 280-312)
\* ----------------------------------------------------------------------

\* lib.rs:57-63 TranscriberProvider, lib.rs:89-94 ExecutionProviderChoice
TranscriberProviders == {"WhisperCpp", "Mistral", "MistralRealtime",
                         "Parakeet"}
ExecutionProviderChoices == {"Auto", "Cpu", "Cuda"}

\* lib.rs:147-165, 103-110: the Default impls of the sub-records.
DefaultMistral ==
    [api_key |-> "", model |-> "voxtral-mini-2602", endpoint |-> ""]
DefaultMistralRealtime ==
    [api_key |-> "", model |-> "voxtral-mini-transcribe-realtime-2602",
     endpoint |-> ""]
DefaultParakeet ==
    [model |-> "parakeet-tdt-0.6b-v3", execution_provider |-> "Auto"]

\* lib.rs:167-177 impl Default for TranscriberConfig
DefaultTranscriber ==
    [provider |-> "WhisperCpp", whisper_cpp |-> DefaultWhisperCpp,
     mistral |-> DefaultMistral, mistral_realtime |-> DefaultMistralRealtime,
     parakeet |-> DefaultParakeet]

\* A config with no sub-record at its default.
CustomTranscriber ==
    [provider |-> "Mistral",
     whisper_cpp |-> [command |-> "my-whisper",
                      args |-> <<"-m", "model.bin">>],
     mistral |-> [api_key |-> "sk-test", model |-> "voxtral-small",
                  endpoint |-> "https://mistral.example/v1"],
     mistral_realtime |-> [api_key |-> "sk-live", model |-> "voxtral-rt",
                           endpoint |-> "wss://mistral.example/rt"],
     parakeet |-> [model |-> "parakeet-tdt-0.6b-v2",
                   execution_provider |-> "Cuda"]]

\* lib.rs:124-136 TranscriberConfig: every provider, each sub-record at
\* its default or not.
TranscriberConfigs ==
    [provider : TranscriberProviders,
     whisper_cpp : {DefaultWhisperCpp, CustomTranscriber.whisper_cpp},
     mistral : {DefaultMistral, CustomTranscriber.mistral},
     mistral_realtime : {DefaultMistralRealtime,
                         CustomTranscriber.mistral_realtime},
     parakeet : {DefaultParakeet, CustomTranscriber.parakeet}]

\* Mutant: only the first word of a variant's name is kept.
kebab_case_firstWord(name) ==
    CASE name = "WhisperCpp" -> "whisper"
      [] name = "Mistral" -> "mistral"
      [] name = "MistralRealtime" -> "mistral"
      [] name = "Parakeet" -> "parakeet"
      [] name = "Auto" -> "auto"
      [] name = "Cpu" -> "cpu"
      [] name = "Cuda" -> "cuda"

\* lib.rs:56, 88  #[serde(rename_all = "kebab-case")]
kebab_case(name) ==
    CASE name = "WhisperCpp" -> "whisper-cpp"
      [] name = "Mistral" -> "mistral"
      [] name = "MistralRealtime" -> "mistral-realtime"
      [] name = "Parakeet" -> "parakeet"
      [] name = "Auto" -> "auto"
      [] name = "Cpu" -> "cpu"
      [] name = "Cuda" -> "cuda"

\* serde's reading of an enum: the variant whose name the string is.
IsVariant(s, variants) == \E v \in variants : kebab_case(v) = s
Variant(s, variants) == CHOOSE v \in variants : kebab_case(v) = s

\* The JSON object "{}": every key absent.
EmptyJson ==
    [provider |-> AbsentKey(""),
     whisper_cpp |-> [kind |-> "absent", command |-> "", args |-> <<>>],
     mistral |-> [kind |-> "absent", api_key |-> "", model |-> "",
                  endpoint |-> AbsentKey("")],
     mistral_realtime |-> [kind |-> "absent", api_key |-> "", model |-> "",
                           endpoint |-> AbsentKey("")],
     parakeet |-> [kind |-> "absent", model |-> "",
                   execution_provider |-> AbsentKey("")]]

\* serde_json::to_string of a TranscriberConfig (derive(Serialize),
\* lib.rs:65-136): every field is written, the enums by their kebab-case
\* names.
to_string(c) ==
    [provider |-> TypedKey(kebab_case(c.provider)),
     whisper_cpp |-> [kind |-> "present",
                      command |-> c.whisper_cpp.command,
                      args |-> c.whisper_cpp.args],
     mistral |-> [kind |-> "present", api_key |-> c.mistral.api_key,
                  model |-> c.mistral.model,
                  endpoint |-> TypedKey(c.mistral.endpoint)],
     mistral_realtime |-> [kind |-> "present",
                           api_key |-> c.mistral_realtime.api_key,
                           model |-> c.mistral_realtime.model,
                           endpoint |->
                              TypedKey(c.mistral_realtime.endpoint)],
     parakeet |-> [kind |-> "present", model |-> c.parakeet.model,
                   execution_provider |->
                      TypedKey(kebab_case(c.parakeet.execution_provider))]]

\* serde_json::from_str::<TranscriberConfig> (derive(Deserialize) with
\* #[serde(default)], lib.rs:65-136): a key that is absent gives the
\* default of its field, a string that names no variant is an error.
from_str(j) ==
    LET okP == j.provider.kind = "typed"
                  => IsVariant(j.provider.v, TranscriberProviders)
        ep == j.parakeet.execution_provider
        okE == (j.parakeet.kind = "present" /\ ep.kind = "typed")
                  => IsVariant(ep.v, ExecutionProviderChoices)
    IN  [ok |-> okP /\ okE,
         config |->
           IF ~(okP /\ okE) THEN DefaultTranscriber
           ELSE
           [provider |-> IF j.provider.kind = "typed"
                         THEN Variant(j.provider.v, TranscriberProviders)
                         ELSE "WhisperCpp",
            whisper_cpp |-> IF j.whisper_cpp.kind = "present"
                            THEN [command |-> j.whisper_cpp.command,
                                  args |-> j.whisper_cpp.args]
                            ELSE DefaultWhisperCpp,
            mistral |-> IF j.mistral.kind = "present"
                        THEN [api_key |-> j.mistral.api_key,
                              model |-> j.mistral.model,
                              endpoint |-> KeyOr(j.mistral.endpoint, "")]
                        ELSE DefaultMistral,
            mistral_realtime |->
               IF j.mistral_realtime.kind = "present"
               THEN [api_key |-> j.mistral_realtime.api_key,
                     model |-> j.mistral_realtime.model,
                     endpoint |-> KeyOr(j.mistral_realtime.endpoint, "")]
               ELSE DefaultMistralRealtime,
            parakeet |->
               IF j.parakeet.kind = "present"
               THEN [model |-> j.parakeet.model,
                     execution_provider |->
                        IF ep.kind = "typed"
                        THEN Variant(ep.v, ExecutionProviderChoices)
                        ELSE "Auto"]
               ELSE DefaultParakeet]]

\* Keys a caller's JSON may lack.
JsonKeys == {"provider", "whisper_cpp", "mistral", "mistral_realtime",
             "parakeet", "endpoint", "execution_provider", "none"}

\* The object j without the key k.
Without(j, k) ==
    CASE k = "provider" -> [j EXCEPT !.provider = EmptyJson.provider]
      [] k = "whisper_cpp" -> [j EXCEPT !.whisper_cpp = EmptyJson.whisper_cpp]
      [] k = "mistral" -> [j EXCEPT !.mistral = EmptyJson.mistral]
      [] k = "mistral_realtime" ->
            [j EXCEPT !.mistral_realtime = EmptyJson.mistral_realtime]
      [] k = "parakeet" -> [j EXCEPT !.parakeet = EmptyJson.parakeet]
      [] k = "endpoint" ->
            [j EXCEPT !.mistral.endpoint = AbsentKey(""),
                      !.mistral_realtime.endpoint = AbsentKey("")]
      [] k = "execution_provider" ->
            [j EXCEPT !.parakeet.execution_provider = AbsentKey("")]
      [] k = "none" -> j

\* What a caller may pass to set_transcriber_config: the JSON of a
\* config, with or without one of its keys, "{}", and a provider that
\* does not exist.
CallerJson ==
    {Without(to_string(c), k) : c \in TranscriberConfigs, k \in JsonKeys}
    \cup {EmptyJson,
          [to_string(DefaultTranscriber)
              EXCEPT !.provider = TypedKey("whisper_cpp")]}

\* The part of the provider the session loop looks at.
SessionProvider(p) == IF p = "MistralRealtime" THEN p ELSE "WhisperCpp"

\* dbus.rs:208-212 the transcriber_config property is read.
GetTranscriberConfig ==
    /\ io.pc = "hub"
    /\ io' = [io EXCEPT !.pc = "read", !.json = to_string(io.hub),
                        !.src = "getter"]
    /\ UNCHANGED <<supVars, loopVars, taskVars, orphanVars, hubVars,
                   latchVars, token_file, ghostVars, calls, ws>>

\* dbus.rs:280-312 set_transcriber_config with the JSON at hand; saveOk
\* is the result of Config::save.
SetTranscriberConfigJson(saveOk) ==
    /\ io.pc \in {"read", "json"}
    /\ LET r == from_str(io.json) IN
       IF r.ok
       THEN /\ io' = [io EXCEPT !.pc = "set", !.hub = r.config,
                                !.before = io.hub]
            /\ config' = [config EXCEPT
                            !.provider = SessionProvider(r.config.provider)]
            /\ restart_signal' = (restart_signal \/ saveOk)
       ELSE /\ io' = [io EXCEPT !.pc = "rejected"]
            /\ UNCHANGED <<config, restart_signal>>
    /\ UNCHANGED <<supVars, loopVars, taskVars, orphanVars, state,
                   portal_connected, last_transcript, last_error,
                   pending_injection, shutdown_signal, token_file,
                   ghostVars, calls, ws>>

JsonStarts ==
    {[pc |-> "hub", hub |-> c, before |-> c, json |-> EmptyJson,
      src |-> "none"] : c \in TranscriberConfigs}
    \cup {[pc |-> "json", hub |-> CustomTranscriber,
           before |-> CustomTranscriber, json |-> j, src |-> "caller"] :
             j \in CallerJson}

JsonInit == IoInit(JsonStarts)

JsonNext ==
    \/ GetTranscriberConfig
    \/ \E saveOk \in BOOLEAN : SetTranscriberConfigJson(saveOk)

JsonSpec == JsonInit /\ [][JsonNext]_vars

\* ----------------------------------------------------------------------
\* Properties
\* ----------------------------------------------------------------------

\* The transition table of section 4.1, row by row; "any" is every state.
TransitionTable ==
    {<<"Idle", "Activated", "Recording">>,
     <<"Recording", "Deactivated", "Transcribing">>,
     <<"Streaming", "Deactivated", "Transcribing">>,
     <<"Transcribing", "TranscriptReady", "Injecting">>,
     <<"Injecting", "InjectionDone", "Idle">>,
     <<"Transcribing", "InjectionDone", "Idle">>,
     <<"Streaming", "InjectionDone", "Idle">>,
     <<"Injecting", "Activated", "Recording">>,
     <<"RecoveringSession", "Recovered", "Idle">>}
    \cup {<<s, "Error", "RecoveringSession">> : s \in States}

IsPrefix(a, b) == Len(a) <= Len(b) /\ SubSeq(b, 1, Len(a)) = a

\* C1: whatever state the session loop is in, for every event e,
\* transition(current_state, e) is t exactly when (current_state, e, t)
\* is a row of the table, and is None exactly when no row has that state
\* and e.  (Every one of the six states is reached as current_state.)
C1_TransitionMatchesTable ==
    current_state \in States =>
        \A e \in Events :
            /\ \A t \in States :
                  (transition(current_state, e) = t)
                      <=> (<<current_state, e, t>> \in TransitionTable)
            /\ (transition(current_state, e) = None) <=>
                  ~ \E t \in States :
                        <<current_state, e, t>> \in TransitionTable

\* C1 witness: the session loop has followed the table from Idle to
\* Injecting.
C1_Witness ==
    /\ current_state = "Injecting"
    /\ hist = <<"Idle", "Recording", "Transcribing", "Injecting">>

\* The predecessor/successor pairs of the table.  The Activated rows are
\* read with the note under the table: in a streaming session they lead
\* to Streaming instead of Recording.
TablePairs ==
    {<<r[1], r[3]>> : r \in TransitionTable}
    \cup {<<"Idle", "Streaming">>, <<"Injecting", "Streaming">>}

\* C2: every change of the published state goes from a predecessor to a
\* successor that form a row of the transition table.  (hist holds the
\* published states in order, the state published before them first.)
C2_PublishedChangesFollowTable ==
    \A i \in 1..(Len(hist) - 1) :
        hist[i] # hist[i + 1] => <<hist[i], hist[i + 1]>> \in TablePairs

HappySeq == <<"Idle", "Recording", "Transcribing", "Injecting", "Idle">>

\* C3: a batch cycle started from Idle with nothing of an earlier cycle
\* outstanding, whose transcript is not empty and whose injection
\* succeeds, publishes Idle, Recording, Transcribing, Injecting, Idle and
\* nothing else; once its events are consumed the sequence is complete,
\* last_transcript is its transcript and last_error is empty.
C3_HappyBatchCycle ==
    (cyc.quiet /\ cyc.tr \in {"none", "text"} /\ cyc.inj \in {"none", "ok"})
    => /\ IsPrefix(hist, HappySeq)
       /\ last_error = ""
       /\ cyc.tr = "text" => last_transcript = cyc.cap
       /\ (cyc.inj = "ok" /\ state_ch = <<>>)
          => /\ hist = HappySeq
             /\ state = "Idle"

\* C3 witness: a happy cycle has run to its end.
C3_Witness ==
    /\ cyc.quiet
    /\ cyc.tr = "text"
    /\ cyc.inj = "ok"
    /\ hist = HappySeq
    /\ last_transcript = cyc.cap
    /\ last_error = ""

\* C4: while a transcript handed to the injector of the running session
\* has not been typed to the end, the published state is not Idle.
C4_IdleOnlyAfterInjection ==
    (supPc \in LoopPcs /\ Remaining # <<>>) => state # "Idle"

\* C5: there is never more than one live audio capture, and a capture is
\* started only when none is live.
C5_AtMostOneCapture ==
    /\ [](nLive <= 1)
    /\ [][nCaptures' # nCaptures => (nLive = 0 /\ nLive' = 1)]_vars

\* C5 witness: a new capture is live while the transcript of an earlier
\* one is still being typed.
C5_Witness ==
    /\ nLive = 1
    /\ recording_handle # 0
    /\ inj_cur # 0
    /\ recording_handle # inj_cur

\* C6: while Recording or Streaming, an Activated signal of the
\* configured shortcut that comes 100 ms or less after the previous one
\* changes neither the state nor the capture; one that comes later stops
\* the capture and leaves Recording / Streaming.
C6_RepeatCollapse ==
    [][\A devOk \in BOOLEAN :
          (Activated(ShortcutId, devOk)
           /\ current_state \in {"Recording", "Streaming"})
          => IF elapsed <= REPEAT_THRESHOLD
             THEN UNCHANGED <<current_state, state, recording_handle,
                              streaming_handle, nLive, hist, supPc>>
             ELSE /\ recording_handle' = 0
                  /\ streaming_handle' = 0
                  /\ nLive' = 0
                  /\ current_state' \notin {"Recording", "Streaming"}
                  /\ state' # state]_vars

\* C6 witness: a repeat signal was ignored during a recording that is the
\* only transition since Idle.
C6_Witness ==
    /\ sig = "repeat"
    /\ current_state = "Recording"
    /\ hist = <<"Idle", "Recording">>
    /\ recording_handle # 0

\* C7: once an injector failure has moved the session to
\* RecoveringSession, the state eventually returns to Idle (or the daemon
\* was shut down).
C7_RecoversFromInjectionFailure ==
    (current_state = "RecoveringSession")
        ~> (state = "Idle" \/ supPc = "returned")

\* C8: after a session error the supervisor clears portal-connected,
\* publishes RecoveringSession, sleeps, publishes Idle and re-enters
\* run_session, in that order; portal-connected goes from false to true
\* only when both portal sessions of the new session exist.
C8_RecoveryOrder ==
    /\ [](supPc \in {"err_notify", "backoff"} => ~portal_connected)
    /\ [](supPc = "backoff" => state = "RecoveringSession")
    /\ [][/\ (supPc \in SetupPcs /\ supPc' \notin SessionPcs \cup {"returned"})
             => (supPc' = "err_notify" /\ ~portal_connected')
          /\ (supPc = "err_notify" /\ supPc' # supPc)
             => (supPc' = "backoff" /\ state' = "RecoveringSession")
          /\ (supPc = "backoff" /\ supPc' # supPc)
             => (supPc' = "start" /\ state' = "Idle" /\ ~portal_connected')
          /\ (supPc = "start" /\ supPc' # supPc)
             => supPc' \in {"shortcuts", "returned"}
          /\ (~portal_connected /\ portal_connected')
             => (shortcutsUp' /\ desktopUp' /\ supPc' = "select")]_vars

\* C8 witness: a recovery has run through; the loop is about to re-enter.
C8_Witness ==
    /\ supPc = "start"
    /\ Len(hist) = 3
    /\ hist[2] = "RecoveringSession"
    /\ hist[3] = "Idle"
    /\ ~portal_connected

\* C9: run_with_recovery never returns an error, and it returns only
\* after shutdown was requested.
C9_SelfHealing ==
    /\ supResult # "Err"
    /\ supPc = "returned" => (quitEver /\ supResult = "Ok")

\* C9 witness: a session has failed and the supervisor is still running.
C9_Witness ==
    /\ supPc = "backoff"
    /\ supResult = "none"
    /\ ~quitEver

\* C10: once shutdown was requested the supervisor eventually returns,
\* wherever it was when the request came.
C10_ShutdownReturns == quitEver ~> (supPc = "returned" /\ supResult = "Ok")

\* C10 witness: the supervisor has returned after a request.
C10_Witness ==
    /\ supPc = "returned"
    /\ supResult = "Ok"
    /\ quitEver
    /\ ~shutdown_signal

C12_ReadableBeforeReturn ==
    \A c \in CallIds :
        (calls[c].pc = "ok" /\ calls[c].m \in SetMethods) => calls[c].seen

\* C12 witness: a set_shortcut call that changed the trigger has returned
\* Ok, and a reload_config served at the same time has replaced the hub's
\* config.
C12_Witness ==
    \E c, d \in CallIds :
        /\ calls[c].m = "set_shortcut"
        /\ calls[c].pc = "ok"
        /\ calls[c].changed
        /\ calls[c].seen
        /\ calls[d].m = "reload_config"
        /\ calls[d].pc = "ok"
        /\ calls[d].changed

\* C13: every mutator that has returned Ok has persisted the config
\* (reload_config takes it from the file) and, if it changed a property,
\* has emitted the property-changed notification.
C13_MutatorsPersistAndNotify ==
    \A c \in CallIds :
        calls[c].pc = "ok"
        => /\ calls[c].saved \/ calls[c].m = "reload_config"
           /\ calls[c].changed => calls[c].notified

\* The texts an injector task of the running session holds or will get.
InFlight == {Remaining[i] : i \in 1..Len(Remaining)}

\* C14: when the transcription of a batch capture returns an empty text,
\* the step that handles it hands nothing to the injector, leaves
\* last_transcript alone and takes the state from Transcribing to Idle;
\* the text of that capture never reaches the injector or last_transcript
\* afterwards, and a cycle that started with nothing outstanding has
\* published Idle, Recording, Transcribing, Idle.
C14_EmptyTranscript ==
    /\ [][(supPc = "transcribing" /\ cyc.tr # "empty" /\ cyc'.tr = "empty")
          => /\ UNCHANGED <<inj_q, inj_cur, last_transcript, last_error>>
             /\ current_state = "Transcribing"
             /\ current_state' = "Idle"
             /\ state' = "Idle"
             /\ supPc' = "select"
             /\ cyc.quiet
                => hist' = <<"Idle", "Recording", "Transcribing", "Idle">>]_vars
    /\ [](cyc.tr = "empty"
          => /\ cyc.cap \notin InFlight
             /\ last_transcript # cyc.cap
             /\ supPc # "enqueue")

\* C14 witness: a cycle whose transcript was empty is over; the transcript
\* of the cycle before it is still the last one.
C14_Witness ==
    /\ cyc.tr = "empty"
    /\ cyc.cap = 2
    /\ last_transcript = 1
    /\ state = "Idle"
    /\ Remaining = <<>>


\* C15: the injector task of a session takes a text only when it is
\* typing none, and takes the one submitted first; it sends
\* TranscriptReady as it takes the text, before typing it, and exactly one
\* of InjectionDone and Error when the typing has ended; a submission
\* goes to the end of the queue; the texts wait in the order of their
\* captures.
C15_InjectorSerial ==
    /\ [][(supPc' \in LoopPcs /\ inj_cur' # inj_cur)
          => \/ /\ inj_cur = 0
                /\ inj_q # <<>>
                /\ inj_cur' = Head(inj_q)
                /\ inj_q' = Tail(inj_q)
                /\ state_ch' = Append(state_ch, "TranscriptReady")
             \/ /\ inj_cur # 0
                /\ inj_cur' = 0
                /\ inj_q' = inj_q
                /\ \E e \in {"InjectionDone", "Error"} :
                      state_ch' = Append(state_ch, e)]_vars
    /\ [][(supPc' \in LoopPcs /\ inj_cur' = inj_cur /\ inj_q' # inj_q)
          => (supPc = "enqueue" /\ inj_q' = Append(inj_q, audio_path))]_vars
    /\ [](\A i, j \in 1..Len(Remaining) :
             i < j => Remaining[i] < Remaining[j])

\* C15 witness: the text of a second capture waits in the queue while the
\* first is being typed.
C15_Witness ==
    /\ inj_cur = 1
    /\ inj_q = <<2>>
    /\ supPc = "select"


\* C16: an Activated signal handled in Injecting that starts a capture
\* makes the state Recording with that capture live; an InjectionDone
\* taken from the channel in Recording changes neither the state nor the
\* capture; and a text starts being typed only when no other is, with
\* every text still waiting being of a later capture, so the earlier text
\* is typed to its end before the text of the new capture.
C16_OverlapAbsorbed ==
    /\ [][(supPc = "select" /\ current_state = "Injecting"
           /\ nCaptures' = nCaptures + 1)
          => /\ current_state' = "Recording"
             /\ state' = "Recording"
             /\ recording_handle' = nCaptures'
             /\ nLive' = 1
             /\ UNCHANGED <<inj_q, inj_cur>>]_vars
    /\ [][(supPc = "select" /\ current_state = "Recording"
           /\ state_ch # <<>> /\ Head(state_ch) = "InjectionDone"
           /\ state_ch' = Tail(state_ch) /\ supPc' = "select")
          => UNCHANGED <<current_state, state, hist, recording_handle,
                         nLive>>]_vars
    /\ [][(supPc' \in LoopPcs /\ inj_cur' # 0 /\ inj_cur' # inj_cur)
          => /\ inj_cur = 0
             /\ \A x \in InFlight' : x >= inj_cur']_vars
    /\ [](recording_handle # 0 => \A x \in InFlight : x < recording_handle)

\* C16 witness: the capture started during the injection of the first
\* text is live, and the InjectionDone of that injection has been taken
\* from the channel while Recording.
C16_Witness ==
    /\ current_state = "Recording"
    /\ hist = <<"Injecting", "Recording">>
    /\ recording_handle = 2
    /\ nLive = 1
    /\ Remaining = <<>>
    /\ state_ch = <<>>
    /\ pending_injection = 0


OrphanTexts == UNION {{q[i] : i \in 1..Len(q)} : q \in inj_orphans}

\* C18: when the typing of a text fails with an error of the portal, the
\* text is put into pending_injection and Error is sent; an Error taken
\* from the channel makes the state RecoveringSession whatever it was;
\* pending_injection changes only when a typing fails, to the text that
\* failed, and the text it holds is in no injector queue again.
C18_PortalFailureHoldover ==
    /\ [][InjectorFinish("portal")
          => /\ pending_injection' = inj_cur
             /\ state_ch' = Append(state_ch, "Error")]_vars
    /\ [][(supPc = "select" /\ supPc' = "select" /\ state_ch # <<>>
           /\ Head(state_ch) = "Error" /\ state_ch' = Tail(state_ch))
          => /\ current_state' = "RecoveringSession"
             /\ state' = "RecoveringSession"]_vars
    /\ [][pending_injection' # pending_injection
          => /\ pending_injection' # 0
             /\ \/ (inj_cur = pending_injection' /\ inj_cur' = 0)
                \/ \E q \in inj_orphans :
                      /\ Head(q) = pending_injection'
                      /\ q \notin inj_orphans']_vars
    /\ [](pending_injection # 0
          => pending_injection \notin InFlight \cup OrphanTexts)

\* C18 witness: the typing of the first text has failed, its Error has
\* been taken in Recording (a new capture had started), the state is
\* RecoveringSession and the text is held.
C18_Witness ==
    /\ pending_injection = 1
    /\ current_state = "RecoveringSession"
    /\ state = "RecoveringSession"
    /\ hist = <<"Injecting", "Recording", "RecoveringSession">>
    /\ Remaining = <<>>
    /\ state_ch = <<>>


\* C19: when the typing of a text fails with an error of the clipboard
\* helper, the error text is put into last_error, InjectionDone is sent
\* (not Error), and the text is not put into pending_injection.
C19_LocalFailureNonFatal ==
    [][InjectorFinish("local")
       => /\ state_ch' = Append(state_ch, "InjectionDone")
          /\ last_error' # ""
          /\ pending_injection' = pending_injection]_vars


\* C20: in a session of the streaming backend, an Activated signal that
\* starts a capture publishes Streaming after Idle and starts the
\* WebSocket task; the signal that stops it publishes Transcribing, ends
\* the capture and gives the running task the stop signal; Transcribing
\* is left for Idle only by taking an InjectionDone that the task, now
\* ended, has posted, and the publications of the cycle are then Idle,
\* Streaming, Transcribing, Idle; Recording is never published.
C20_StreamingCycle ==
    /\ [][(supPc = "select" /\ is_streaming(sessCfg)
           /\ nCaptures' = nCaptures + 1)
          => /\ current_state' = "Streaming"
             /\ hist' = <<"Idle", "Streaming">>
             /\ streaming_handle' = nCaptures'
             /\ st'.alive /\ ~st'.stop /\ st'.cap = nCaptures'
             /\ nLive' = 1]_vars
    /\ [][(current_state = "Streaming" /\ current_state' = "Transcribing")
          => /\ hist' = <<"Idle", "Streaming", "Transcribing">>
             /\ state' = "Transcribing"
             /\ streaming_handle' = 0
             /\ nLive' = 0
             /\ st.alive => (st'.alive /\ st'.stop)]_vars
    /\ [][(is_streaming(sessCfg) /\ current_state = "Transcribing"
           /\ current_state' # "Transcribing" /\ supPc' = "select")
          => /\ state_ch # <<>>
             /\ Head(state_ch) = "InjectionDone"
             /\ state_ch' = Tail(state_ch)
             /\ ~st.alive
             /\ current_state' = "Idle"
             /\ hist' = <<"Idle", "Streaming", "Transcribing", "Idle">>]_vars
    /\ []((supPc \in LoopPcs /\ is_streaming(sessCfg))
          => (current_state \in {"Idle", "Streaming", "Transcribing"}
              /\ recording_handle = 0))

\* C20 witness: a streaming cycle has run from the start press to the
\* Idle after the task's InjectionDone, and the typed deltas are the last
\* transcript.
C20_Witness ==
    /\ supPc = "select"
    /\ is_streaming(sessCfg)
    /\ hist = <<"Idle", "Streaming", "Transcribing", "Idle">>
    /\ sig = "stop"
    /\ ~st.alive
    /\ last_transcript = nCaptures
    /\ last_error = ""


\* The keysyms a text comes to when it is typed to its end.
RECURSIVE Keysyms(_)
Keysyms(s) ==
    IF s = <<>> THEN <<>>
    ELSE IF char_to_keysym(Head(s)) = 0 THEN Keysyms(Tail(s))
    ELSE <<char_to_keysym(Head(s))>> \o Keysyms(Tail(s))

\* The keys typed are those of the deltas received by the main loop, in
\* the order received, all but the rest of the delta being typed: no
\* delta is begun before the one before it is typed to its end.
DeltasTypedInOrder ==
    ~ws.failed
    => ws.typed \o Keysyms(ws.rest) = Keysyms(Flatten(ws.received))

C22_StreamErrorRecovers ==
    [][StreamEnd("err")
       => /\ state_ch' = Append(state_ch, "Error")
          /\ transition(current_state, state_ch'[Len(state_ch')])
                = "RecoveringSession"]_vars


\* C23: when the Activated signal is accepted in Idle or Injecting and
\* the start of the capture fails, the state that was current stays
\* current, the published state stays what it was, and neither Recording
\* nor Streaming is published by the step.
C23_StartFailureLeavesState ==
    [][(Activated(ShortcutId, FALSE)
        /\ current_state \in {"Idle", "Injecting"})
       => /\ current_state' = current_state
          /\ state' = state
          /\ \A i \in 2..Len(hist') :
                hist'[i] \notin {"Recording", "Streaming"}]_vars


C26_OneUpdatePerCapture ==
    \A c \in CaptureIds : updates[c] <= 1

C26_Witness ==
    /\ nCaptures = 2
    /\ updates[1] = 1
    /\ updates[2] = 0
    /\ current_state = "Idle"
    /\ ~st.alive
    /\ recording_handle = 0


\* C29: the order of the frames a streaming run sends: session.update
\* only after session.created was received and before every other frame,
\* input_audio.end at most once, and nothing after it, while the server's
\* frames are still taken in drain mode.
C29_ProtocolOrder ==
    /\ ws.sent # <<>> => ws.created /\ ws.sent[1] = "session.update"
    /\ \A i, j \in 1..Len(ws.sent) :
          (ws.sent[i] = "input_audio.end" /\ ws.sent[j] = "input_audio.end")
             => i = j
    /\ \A i \in 1..Len(ws.sent) :
          ws.sent[i] = "input_audio.end" => i = Len(ws.sent)
    /\ ws.draining <=>
          (ws.sent # <<>> /\ ws.sent[Len(ws.sent)] = "input_audio.end")
    /\ (ws.draining /\ ws.pc = "loop" /\ ws.nFrames < MaxFrames)
          => ENABLED WsServer([kind |-> "Text", type |-> "other",
                               text |-> NoText])

C29_Witness ==
    /\ ws.draining
    /\ ws.chunks > 0
    /\ ws.end = "transcription.done"
    /\ ws.sent = <<"session.update", "input_audio.end">>


\* A step of a task whose session is gone that pastes a text, types a
\* delta, or writes last_transcript or last_error.
OldTaskActs ==
    \/ \E q \in inj_orphans, res \in PasteResults : OrphanInjectorStep(q, res)
    \/ \E o \in st_orphans : OrphanStreamDelta(o)
    \/ \E o \in st_orphans, kind \in StreamEndKinds :
          /\ OrphanStreamEnd(o, kind)
          /\ (last_transcript' # last_transcript \/ last_error' # last_error)

\* C30: once the session loop of a new session runs, no task of an
\* earlier session acts any more: none pastes a text, none types a delta,
\* none writes last_transcript or last_error.
C30_OldSessionTornDown ==
    [][OldTaskActs => supPc \notin LoopPcs]_vars


\* A file of the old format: a [transcriber] table with a bare command or
\* bare args or both, of the right types, and nothing of the new format.
OldSchema(f) ==
    /\ f.section
    /\ f.command.kind = "typed" \/ f.args.kind = "typed"
    /\ f.command.kind # "mistyped" /\ f.args.kind # "mistyped"
    /\ f.provider.kind = "absent"
    /\ f.whisper_cpp.kind = "absent"

\* The file without its bare command and args.
WithoutBare(f) ==
    [f EXCEPT !.command = AbsentKey(""), !.args = AbsentKey(<<>>)]

\* C27: a file of the old format loads; whisper_cpp.command and .args are
\* the bare values, a bare key that is absent leaves the default, the
\* provider is whisper-cpp, and the other sections are what the same file
\* without the bare keys loads as.
C27_LegacyMigration ==
    (io.pc = "loaded" /\ OldSchema(io.file))
    => LET f == io.file
           c == io.config
           plain == load_from_str(WithoutBare(f))
       IN  /\ c.ok
           /\ c.whisper_cpp.command =
                 KeyOr(f.command, DefaultWhisperCpp.command)
           /\ c.whisper_cpp.args = KeyOr(f.args, DefaultWhisperCpp.args)
           /\ c.provider = "whisper-cpp"
           /\ c.trigger = plain.trigger
           /\ c.trigger = KeyOr(f.trigger, default_shortcut_trigger)
           /\ c.sample_rate = plain.sample_rate
           /\ c.sample_rate = KeyOr(f.sample_rate, default_sample_rate)

C27_Witness ==
    /\ io.pc = "loaded"
    /\ OldSchema(io.file)
    /\ io.file.command.kind = "typed"
    /\ io.file.args.kind = "absent"
    /\ io.file.trigger.kind = "typed"
    /\ io.config.whisper_cpp.command = "my-whisper"
    /\ io.config.whisper_cpp.args = <<>>
    /\ io.config.trigger = "<Control>d"



\* C28: the JSON of a transcriber config parses back to the same config,
\* for every provider; a set_transcriber_config with the value the
\* transcriber_config property has just given leaves the hub's config as
\* it was; and a JSON that lacks a provider's sub-record parses with the
\* default of that sub-record.
C28_JsonRoundTrip ==
    /\ from_str(to_string(io.hub)) = [ok |-> TRUE, config |-> io.hub]
    /\ io.src = "getter" /\ io.pc # "read"
          => io.pc = "set" /\ io.hub = io.before
    /\ io.src = "caller" /\ io.pc = "set"
          => /\ io.json.whisper_cpp.kind = "absent"
                   => io.hub.whisper_cpp = DefaultWhisperCpp
             /\ io.json.mistral.kind = "absent"
                   => io.hub.mistral = DefaultMistral
             /\ io.json.mistral_realtime.kind = "absent"
                   => io.hub.mistral_realtime = DefaultMistralRealtime
             /\ io.json.parakeet.kind = "absent"
                   => io.hub.parakeet = DefaultParakeet

C28_Witness ==
    /\ io.pc = "set"
    /\ io.src = "getter"
    /\ io.hub.provider = "MistralRealtime"
    /\ io.hub.parakeet = CustomTranscriber.parakeet
    /\ io.hub = io.before

\* ---------------------------------------------------------------------
\* Capture flow and backend
\* ---------------------------------------------------------------------

\* The backend the running session was built with (main.rs:160,
\* transcriber.rs:38-59) is the streaming variant.
StreamingBackend == sessCfg.provider = "MistralRealtime"

\* The states the running session itself has published since it was set up
\* or since its last capture began.
SessionPublished == {hist[i] : i \in 2..Len(hist)}

\* C31: inside the session loop a session with a batch backend has never
\* published Streaming and holds no streaming handle or task, a session
\* with the streaming backend has never published Recording or Injecting
\* and holds no recording handle, and the batch transcribe call is only
\* running in a session with a batch backend.
C31_FlowFollowsBackend ==
    supPc \in LoopPcs =>
        IF StreamingBackend
        THEN /\ SessionPublished \cap {"Recording", "Injecting"} = {}
             /\ state \notin {"Recording", "Injecting"}
             /\ current_state \notin {"Recording", "Injecting"}
             /\ recording_handle = 0
             /\ supPc # "transcribing"
        ELSE /\ "Streaming" \notin SessionPublished
             /\ state # "Streaming"
             /\ current_state # "Streaming"
             /\ streaming_handle = 0
             /\ ~st.alive

C31_Witness ==
    /\ StreamingBackend
    /\ supPc = "select"
    /\ hist = <<"Idle", "Streaming", "Transcribing">>
    /\ nCaptures = 2
    /\ wav = {}
    /\ updates[1] = 1

\* ---------------------------------------------------------------------
\* The restart and shutdown latches on their own
\* ---------------------------------------------------------------------

\* Requests made to one latch between two returns of its await.
MaxRequests == 2

\* Returns of the restart await that are followed.
MaxWakes == 2

Latches == {"restart", "shutdown"}

\* loop: the session loop is at its select (main.rs:190, awaiting
\* session_restart_requested at 317) or busy elsewhere (set-up, an arm's
\* body).  sup: the supervisor is at its select (main.rs:97-118, awaiting
\* shutdown_requested), in its back-off sleep (main.rs:103-111), or has
\* returned.  since counts the requests made to a latch since its await
\* last returned, wakes the returns of the await, used the requests that
\* the last return answered.
LatchStarts ==
    {[pc |-> "latch", loop |-> "busy", sup |-> "select",
      since |-> [l \in Latches |-> 0], wakes |-> [l \in Latches |-> 0],
      used |-> [l \in Latches |-> 0]]}

LatchInit == IoInit(LatchStarts)

LatchRest ==
    UNCHANGED <<supVars, loopVars, taskVars, orphanVars, hubVars,
                token_file, ghostVars, calls, ws>>

\* A set_* call that succeeded (dbus.rs:275, 309, 343, 361).
LatchRequestRestart ==
    /\ io.pc = "latch"
    /\ io.since["restart"] < MaxRequests
    /\ request_session_restart
    /\ io' = [io EXCEPT !.since["restart"] = @ + 1]
    /\ UNCHANGED shutdown_signal
    /\ LatchRest

\* quit (dbus.rs:374-378).
LatchRequestShutdown ==
    /\ io.pc = "latch"
    /\ io.since["shutdown"] < MaxRequests
    /\ RequestShutdown
    /\ io' = [io EXCEPT !.since["shutdown"] = @ + 1]
    /\ UNCHANGED restart_signal
    /\ LatchRest

\* The session loop comes to its select, or leaves it by another arm.
LatchLoopTurn ==
    /\ io.pc = "latch"
    /\ io.sup = "select"
    /\ io' = [io EXCEPT !.loop = IF @ = "busy" THEN "select" ELSE "busy"]
    /\ UNCHANGED latchVars
    /\ LatchRest

\* main.rs:316-320: the restart arm; the new session starts in set-up.
LatchAwaitRestart ==
    /\ io.pc = "latch"
    /\ io.sup = "select"
    /\ io.loop = "select"
    /\ io.wakes["restart"] < MaxWakes
    /\ session_restart_requested
    /\ io' = [io EXCEPT !.loop = "busy", !.since["restart"] = 0,
                        !.wakes["restart"] = @ + 1,
                        !.used["restart"] = io.since["restart"]]
    /\ UNCHANGED shutdown_signal
    /\ LatchRest

\* main.rs:103-111: run_session returned an error, the supervisor sleeps
\* outside its select, then loops.
LatchSupTurn ==
    /\ io.pc = "latch"
    /\ io.sup \in {"select", "backoff"}
    /\ io' = [io EXCEPT !.sup = IF @ = "select" THEN "backoff" ELSE "select",
                        !.loop = "busy"]
    /\ UNCHANGED latchVars
    /\ LatchRest

\* main.rs:114-117: the shutdown arm; run_with_recovery returns.
LatchAwaitShutdown ==
    /\ io.pc = "latch"
    /\ io.sup = "select"
    /\ shutdown_requested
    /\ io' = [io EXCEPT !.sup = "returned", !.loop = "busy",
                        !.since["shutdown"] = 0,
                        !.wakes["shutdown"] = @ + 1,
                        !.used["shutdown"] = io.since["shutdown"]]
    /\ UNCHANGED restart_signal
    /\ LatchRest

LatchNext ==
    \/ LatchRequestRestart
    \/ LatchRequestShutdown
    \/ LatchLoopTurn
    \/ LatchAwaitRestart
    \/ LatchSupTurn
    \/ LatchAwaitShutdown

LatchSpec == LatchInit /\ [][LatchNext]_vars

\* The permit of a latch is stored exactly when a request was made since
\* its await last returned, however many were made.
LatchRemembers ==
    /\ restart_signal = (io.since["restart"] > 0)
    /\ shutdown_signal = (io.since["shutdown"] > 0)

\* An await that is reached returns at once when the permit is stored and
\* blocks when it is not.
LatchReady ==
    /\ (io.sup = "select" /\ io.loop = "select"
           /\ io.wakes["restart"] < MaxWakes)
          => (ENABLED LatchAwaitRestart) = restart_signal
    /\ io.sup = "select" => (ENABLED LatchAwaitShutdown) = shutdown_signal

\* A return of an await takes the permit: the requests made before it are
\* all used up by that one return.
LatchWakeConsumes ==
    /\ io'.wakes["restart"] # io.wakes["restart"]
          => restart_signal /\ ~restart_signal' /\ io'.since["restart"] = 0
    /\ io'.wakes["shutdown"] # io.wakes["shutdown"]
          => shutdown_signal /\ ~shutdown_signal'
                /\ io'.since["shutdown"] = 0

\* C32: the restart and shutdown signals are one-shot latches: a request
\* made while nobody awaits is remembered and the next await returns at
\* once, several requests before that await make it return once only, and
\* an await after that return blocks until a new request is made.
C32_OneShotLatches ==
    /\ [](io.pc = "latch" => LatchRemembers /\ LatchReady)
    /\ [][io.pc = "latch" => LatchWakeConsumes]_vars

\* Two requests were made while the session loop was busy, the await then
\* returned once, and the loop is back at its select with the latch empty.
C32_Witness ==
    /\ io.pc = "latch"
    /\ io.wakes["restart"] = 1
    /\ io.used["restart"] = 2
    /\ io.since["restart"] = 0
    /\ io.loop = "select"
    /\ ~restart_signal
    /\ ~ENABLED LatchAwaitRestart
    /\ io.since["shutdown"] = 2
    /\ io.sup = "select"

\* ---------------------------------------------------------------------
\* The audio channel of a streaming capture
\* ---------------------------------------------------------------------

\* recorder.rs:41  mpsc::channel::<Vec<i16>>(64)
AudioChanCap == 64

\* Frames the input callback is called with in one capture.
MaxAudioFrames == 66

\* Mutant: the send appends whatever the length of the queue.
try_send_unbounded(chan, frame) == Append(chan, frame)

\* recorder.rs:53  tx.try_send(data.to_vec()) on an open channel: the
\* frame is queued when there is room and refused (Full) when there is
\* none; the result is discarded.
try_send(chan, frame) ==
    IF Len(chan) < AudioChanCap THEN Append(chan, frame) ELSE chan

\* Frames are numbered in the order the device delivers them.  stream:
\* the cpal stream, which owns the callback and the sender, is alive.
\* recording: the flag the callback tests.  rx: the receiver is alive.
\* dropped: frames refused because the queue was full.  offered counts
\* the calls of the callback, also those that return at once because the
\* flag is off and those whose send finds the receiver gone.
AudioStarts ==
    {[pc |-> "audio", stream |-> TRUE, recording |-> TRUE, rx |-> TRUE,
      chan |-> <<>>, offered |-> 0, received |-> <<>>, dropped |-> {}]}

AudioInit == IoInit(AudioStarts)

AudioRest ==
    UNCHANGED <<supVars, loopVars, taskVars, orphanVars, hubVars,
                latchVars, token_file, ghostVars, calls, ws>>

\* recorder.rs:47-54: the input callback, run by the audio thread.
AudioCallback ==
    /\ io.pc = "audio"
    /\ io.stream
    /\ io.offered < MaxAudioFrames
    /\ LET f == io.offered + 1 IN
       io' = IF ~io.recording \/ ~io.rx
             THEN [io EXCEPT !.offered = f]
             ELSE [io EXCEPT !.offered = f,
                             !.chan = try_send(@, f),
                             !.dropped = IF try_send(io.chan, f) = io.chan
                                         THEN @ \cup {f} ELSE @]
    /\ AudioRest

\* streaming.rs:102-113: the task takes the chunk at the head.
AudioRecv ==
    /\ io.pc = "audio"
    /\ io.rx
    /\ io.chan # <<>>
    /\ io' = [io EXCEPT !.chan = Tail(@),
                        !.received = Append(@, Head(io.chan))]
    /\ AudioRest

\* The streaming task ends (streaming.rs:153-190) and its receiver goes
\* with it, and with the receiver what was still queued.
AudioRxDrop ==
    /\ io.pc = "audio"
    /\ io.rx
    /\ io' = [io EXCEPT !.rx = FALSE, !.chan = <<>>]
    /\ AudioRest

\* recorder.rs:154  recording.store(false)
AudioStopFlag ==
    /\ io.pc = "audio"
    /\ io.recording
    /\ io' = [io EXCEPT !.recording = FALSE]
    /\ AudioRest

\* recorder.rs:155  drop(self.stream.take())
AudioStopStream ==
    /\ io.pc = "audio"
    /\ ~io.recording
    /\ io.stream
    /\ io' = [io EXCEPT !.stream = FALSE]
    /\ AudioRest

AudioNext ==
    \/ AudioCallback
    \/ AudioRecv
    \/ AudioRxDrop
    \/ AudioStopFlag
    \/ AudioStopStream

AudioSpec == AudioInit /\ [][AudioNext]_vars

\* The frames of s are in the order of their numbers.
InOrder(s) == \A i \in 1..Len(s) - 1 : s[i] < s[i + 1]

\* The callback's step when it offers a frame to the open channel.
AudioOffer ==
    /\ io.stream /\ io.recording /\ io.rx
    /\ io'.offered = io.offered + 1

\* C33: the audio producer is never blocked (its callback can run whatever
\* the length of the queue), the queue never holds more than its capacity
\* of 64, a frame offered to a full queue is dropped and leaves the queue
\* as it is, a frame offered to a queue with room is appended, and the
\* frames received and queued are in the order they were captured.
C33_LossyBoundedAudio ==
    /\ [](io.pc = "audio" =>
            /\ Len(io.chan) <= AudioChanCap
            /\ InOrder(io.received \o io.chan)
            /\ (io.stream /\ io.offered < MaxAudioFrames)
                  => ENABLED AudioCallback)
    /\ [][io.pc = "audio" /\ AudioOffer =>
            IF Len(io.chan) = AudioChanCap
            THEN /\ io'.chan = io.chan
                 /\ io'.dropped = io.dropped \cup {io'.offered}
            ELSE /\ io'.chan = Append(io.chan, io'.offered)
                 /\ io'.dropped = io.dropped]_vars

\* The queue is full again after a frame was taken from it, and the frame
\* offered then was dropped.
C33_Witness ==
    /\ io.pc = "audio"
    /\ io.received = <<1>>
    /\ Len(io.chan) = AudioChanCap
    /\ io.dropped = {io.offered}
    /\ io.offered = AudioChanCap + 2
    /\ io.recording

\* ---------------------------------------------------------------------
\* Signals that are consumed without effect
\* ---------------------------------------------------------------------

\* An Activated signal of another shortcut, or a Deactivated signal, is
\* taken from its stream.
ForeignOrReleased ==
    \/ \E devOk \in BOOLEAN : Activated(ForeignId, devOk)
    \/ Deactivated

NoEffect ==
    UNCHANGED <<current_state, recording_handle, streaming_handle, elapsed,
                audio_path, hubVars, taskVars>>

\* C34: an Activated signal whose shortcut id is not the configured one,
\* and every Deactivated signal, leaves the state, the capture handles,
\* the repeat timer and the hub as they were.
C34_ForeignSignalsIgnored == [][ForeignOrReleased => NoEffect]_vars

\* A recording is running and the repeat window has passed, so that a
\* press of the configured shortcut would stop it; the foreign press and
\* the release can be taken here.
C34_Witness ==
    /\ supPc = "select"
    /\ current_state = "Recording"
    /\ recording_handle # 0
    /\ elapsed = REPEAT_THRESHOLD + 1
    /\ ENABLED Activated(ForeignId, TRUE)
    /\ ENABLED Deactivated

\* ---------------------------------------------------------------------
\* The session loop and the injector task over their two channels
\* ---------------------------------------------------------------------

\* One batch session in which presses keep coming.  loop: the session
\* loop is at its select or inside stop_recording at injector.enqueue
\* (main.rs:357).  cur: current_state.  q: the texts queued in the
\* injection channel (injector.rs:37).  inj: the injector task is at
\* rx.recv (injector.rs:40), about to send TranscriptReady (41), in
\* paste_text (43), or about to send InjectionDone (45) or Error (50).
\* ch: the state-event channel (main.rs:163).  fails: the pastes that
\* have failed.
QueueStarts ==
    {[pc |-> "queue", loop |-> "select", cur |-> "Idle", q |-> 0,
      inj |-> "recv", ch |-> <<>>, fails |-> 0]}

\* Pastes that fail in one session.
MaxPasteFailures == 1

QueueInit == IoInit(QueueStarts)

QueueRest ==
    UNCHANGED <<supVars, loopVars, taskVars, orphanVars, hubVars,
                latchVars, token_file, ghostVars, calls, ws>>

StopOutcomes == {"stopfail", "text", "empty", "fail"}

\* main.rs:193-300: an Activated signal of the configured shortcut that is
\* not a key repeat.  startOk is the result of Recorder::start, outcome
\* that of handle.stop and transcribe.
QueuePress(startOk, outcome) ==
    /\ io.pc = "queue"
    /\ io.loop = "select"
    /\ io' = IF io.cur = "Recording"
             THEN IF outcome = "text"
                  THEN [io EXCEPT !.cur = "Transcribing", !.loop = "enqueue"]
                  ELSE [io EXCEPT !.cur = "Idle"]
             ELSE IF transition(io.cur, "Activated") # None
             THEN [io EXCEPT !.cur = IF startOk
                                     THEN transition(io.cur, "Activated")
                                     ELSE "Idle"]
             ELSE io
    /\ QueueRest

\* injector.rs:58-61 enqueue: tx.send(text).await waits for room.
QueueEnqueue ==
    /\ io.pc = "queue"
    /\ io.loop = "enqueue"
    /\ io.q < InjectCap
    /\ io' = [io EXCEPT !.q = @ + 1, !.loop = "select"]
    /\ QueueRest

\* main.rs:305-314: the state-event arm.
QueueStateEvent ==
    /\ io.pc = "queue"
    /\ io.loop = "select"
    /\ io.ch # <<>>
    /\ io' = [io EXCEPT !.ch = Tail(@),
                        !.cur = IF transition(@, Head(io.ch)) # None
                                THEN transition(@, Head(io.ch)) ELSE @]
    /\ QueueRest

\* injector.rs:40  rx.recv().await
QueueInjectorRecv ==
    /\ io.pc = "queue"
    /\ io.inj = "recv"
    /\ io.q > 0
    /\ io' = [io EXCEPT !.q = @ - 1, !.inj = "ready"]
    /\ QueueRest

\* The event the injector task is about to send.
QueueEvent(at) ==
    CASE at = "ready" -> "TranscriptReady"
      [] at = "done" -> "InjectionDone"
      [] at = "error" -> "Error"

Sending == {"ready", "done", "error"}

\* injector.rs:41, 45, 50  state_tx.send(event).await waits for room.
QueueInjectorSend ==
    /\ io.pc = "queue"
    /\ io.inj \in Sending
    /\ Len(io.ch) < StateChanCap
    /\ io' = [io EXCEPT !.ch = Append(@, QueueEvent(io.inj)),
                        !.inj = IF @ = "ready" THEN "paste" ELSE "recv"]
    /\ QueueRest

\* injector.rs:43-52  paste_text returns.
QueuePaste(ok) ==
    /\ io.pc = "queue"
    /\ io.inj = "paste"
    /\ ok \/ io.fails < MaxPasteFailures
    /\ io' = [io EXCEPT !.inj = IF ok THEN "done" ELSE "error",
                        !.fails = IF ok THEN @ ELSE @ + 1]
    /\ QueueRest

QueueNext ==
    \/ \E startOk \in BOOLEAN, outcome \in StopOutcomes :
          QueuePress(startOk, outcome)
    \/ QueueEnqueue
    \/ QueueStateEvent
    \/ QueueInjectorRecv
    \/ QueueInjectorSend
    \/ \E ok \in BOOLEAN : QueuePaste(ok)

QueueSpec == QueueInit /\ [][QueueNext]_vars

\* C35: the session loop is never waiting in enqueue on a full injection
\* queue while the injector task is waiting to send an event into a full
\* state-event channel.
C35_NoQueueDeadlock ==
    io.pc = "queue" =>
        ~ /\ io.loop = "enqueue"
          /\ io.q = InjectCap
          /\ io.inj \in Sending
          /\ Len(io.ch) = StateChanCap

\* ---------------------------------------------------------------------
\* Capture handles and the state at the select
\* ---------------------------------------------------------------------

\* C36: whenever the session loop is at its select, a live batch recording
\* handle implies that the current state is Recording and a live streaming
\* handle implies that it is Streaming.
C36_CaptureOnlyWhileCapturing ==
    supPc = "select" =>
        /\ recording_handle # 0 => current_state = "Recording"
        /\ streaming_handle # 0 => current_state = "Streaming"

\* ---------------------------------------------------------------------
\* The end of a streaming task
\* ---------------------------------------------------------------------

\* The streaming task of the running session has ended and the state is
\* still that of its capture.
StreamTaskEnded ==
    /\ StreamingBackend
    /\ supPc \in LoopPcs
    /\ ~st.alive
    /\ current_state \in {"Streaming", "Transcribing"}

\* In a streaming session the event channel is empty while the task runs
\* and holds the task's one InjectionDone from its end until the loop
\* has read it.
OneInjectionDone ==
    (StreamingBackend /\ supPc \in LoopPcs) =>
        /\ supPc = "select"
        /\ current_state \in {"Idle", "Streaming", "Transcribing"}
        /\ st.alive => state_ch = <<>> /\ current_state # "Idle"
        /\ StreamTaskEnded => state_ch = <<"InjectionDone">>
        /\ current_state = "Idle" => state_ch = <<>> /\ streaming_handle = 0

\* The session loop of a streaming session goes from Streaming or
\* Transcribing to Idle.
StreamingToIdle ==
    /\ StreamingBackend
    /\ supPc = "select" /\ supPc' = "select"
    /\ current_state \in {"Streaming", "Transcribing"}
    /\ current_state' = "Idle"

ReleasedByInjectionDone ==
    /\ ~st.alive
    /\ Head(state_ch) = "InjectionDone"
    /\ state_ch' = <<>>
    /\ streaming_handle' = 0
    /\ state' = "Idle"

\* C37: a streaming task posts one InjectionDone to its session's event
\* channel when it ends, whichever way it ends; the session loop leaves
\* Streaming or Transcribing for Idle only by reading that event, and no
\* streaming handle is live afterwards; and once the task has ended the
\* state of its session returns to Idle, unless a restart or a shutdown
\* ends the session first.
C37_StreamEndsInIdle ==
    /\ []OneInjectionDone
    /\ [][StreamingToIdle => ReleasedByInjectionDone]_vars
    /\ StreamTaskEnded ~> (current_state = "Idle" \/ supPc \notin LoopPcs)

\* The task ended on an error while the capture was still running: its
\* InjectionDone waits in the channel and the handle is still live.
C37_Witness ==
    /\ StreamTaskEnded
    /\ current_state = "Streaming"
    /\ streaming_handle # 0
    /\ last_error = StreamError("err")
    /\ state_ch = <<"InjectionDone">>

\* ---------------------------------------------------------------------
\* IPC calls that fail, and the config a session runs with
\* ---------------------------------------------------------------------

\* C38: a set_* call that has returned an error has not changed its
\* property in the hub's config.
C38_ErrorLeavesConfig ==
    \A c \in CallIds :
        (calls[c].m \in SetMethods /\ calls[c].pc = "err")
            => ~calls[c].changed

\* The session that is running was built from the hub's current config,
\* unless a restart is pending.
SessionConfigCurrent ==
    (supPc \in SessionPcs /\ ~restart_signal) => sessCfg = config

\* C39: every IPC call that has returned Ok and changed the hub's config
\* has requested a session restart (no session takes the request away
\* here, so the latch is still set).
C39_ChangeRequestsRestart ==
    \A c \in CallIds :
        (calls[c].pc = "ok" /\ calls[c].changed) => restart_signal

\* ---------------------------------------------------------------------
\* The temporary WAV file of a batch recording, from Recorder::start on
\* ---------------------------------------------------------------------

\* One daemon with batch sessions.  disk: the temp files that exist.
\* handle: the file of the live RecordingHandle (0: none).  path: the
\* file the running transcribe call was given.  loop: the session loop
\* is at its select, awaiting transcribe, or the daemon has returned.
\* q: texts handed to the injector and not yet pasted.  ev: the state
\* events not yet read.  n: the recordings started so far.
TempStarts ==
    {[pc |-> "temp", loop |-> "select", cur |-> "Idle", disk |-> {},
      handle |-> 0, path |-> 0, q |-> 0, ev |-> <<>>, n |-> 0]}

TempInit == IoInit(TempStarts)

TempRest ==
    UNCHANGED <<supVars, loopVars, taskVars, orphanVars, hubVars,
                latchVars, token_file, ghostVars, calls, ws>>

\* recorder.rs:71-143 Recorder::start: it fails before the temp file is
\* made (no input device, 73-75; tempfile, 88-92), or after keep() has
\* made the file permanent (WavWriter::create at 100, build_input_stream
\* at 107-127, play at 129), or it returns the handle.
StartResults == {"nofile", "kept", "ok"}

\* main.rs:275-294: the batch flow starts a recording.
TempStart(res) ==
    /\ io.pc = "temp"
    /\ io.loop = "select"
    /\ transition(io.cur, "Activated") \notin {None}
    /\ io.cur \notin {"Recording", "Streaming"}
    /\ io.n < MaxCaptures
    /\ io' = [io EXCEPT
                !.n = @ + 1,
                !.disk = IF res = "nofile" THEN @ ELSE @ \cup {io.n + 1},
                !.handle = IF res = "ok" THEN io.n + 1 ELSE @,
                !.cur = IF res = "ok" THEN transition(@, "Activated")
                        ELSE "Idle"]
    /\ TempRest

\* main.rs:206-214, 332-347: a press that is no repeat stops the
\* recording; recorder.rs:171-189 stop consumes the handle and returns
\* the path, or the error of finalize.
TempStop(stopOk) ==
    /\ io.pc = "temp"
    /\ io.loop = "select"
    /\ io.cur = "Recording"
    /\ io' = IF io.handle = 0
             THEN [io EXCEPT !.cur = "Transcribing"]
             ELSE IF stopOk
             THEN [io EXCEPT !.handle = 0, !.path = io.handle,
                             !.cur = "Transcribing",
                             !.loop = "transcribing"]
             ELSE [io EXCEPT !.handle = 0, !.cur = "Idle"]
    /\ TempRest

\* transcriber.rs:62-89, main.rs:347-375: transcribe returns; the file
\* it was given is removed whatever the outcome.
TempTranscribeDone(outcome) ==
    /\ io.pc = "temp"
    /\ io.loop = "transcribing"
    /\ io' = [io EXCEPT
                !.disk = @ \ {io.path},
                !.path = 0,
                !.loop = "select",
                !.q = IF outcome = "text" THEN @ + 1 ELSE @,
                !.cur = IF outcome = "text" THEN @ ELSE "Idle"]
    /\ TempRest

\* injector.rs:39-54: the injector task pastes a text and posts its two
\* events.
TempInject(ok) ==
    /\ io.pc = "temp"
    /\ io.loop # "returned"
    /\ io.q > 0
    /\ io' = [io EXCEPT
                !.q = @ - 1,
                !.ev = @ \o <<"TranscriptReady",
                              IF ok THEN "InjectionDone" ELSE "Error">>]
    /\ TempRest

\* main.rs:305-314: the state-event arm; it never touches
\* recording_handle.
TempStateEvent ==
    /\ io.pc = "temp"
    /\ io.loop = "select"
    /\ io.ev # <<>>
    /\ io' = [io EXCEPT
                !.ev = Tail(@),
                !.cur = IF transition(@, Head(io.ev)) # None
                        THEN transition(@, Head(io.ev)) ELSE @]
    /\ TempRest

\* main.rs:316-320, 96-102: the restart arm returns; the locals of
\* run_session are dropped, the RecordingHandle among them, which has no
\* Drop of its own (recorder.rs:161-166), and a new session starts.
TempRestart ==
    /\ io.pc = "temp"
    /\ io.loop = "select"
    /\ io' = [io EXCEPT !.handle = 0, !.cur = "Idle", !.q = 0, !.ev = <<>>]
    /\ TempRest

\* main.rs:114-117: the shutdown arm of the supervisor drops the session
\* future at its await point, also inside transcribe.
TempShutdown ==
    /\ io.pc = "temp"
    /\ io.loop # "returned"
    /\ io' = [io EXCEPT !.handle = 0, !.path = 0, !.loop = "returned",
                        !.q = 0, !.ev = <<>>]
    /\ TempRest

TempNext ==
    \/ \E res \in StartResults : TempStart(res)
    \/ \E stopOk \in BOOLEAN : TempStop(stopOk)
    \/ \E outcome \in {"text", "empty", "fail"} : TempTranscribeDone(outcome)
    \/ \E ok \in BOOLEAN : TempInject(ok)
    \/ TempStateEvent
    \/ TempRestart
    \/ TempShutdown

TempSpec == TempInit /\ [][TempNext]_vars

\* C40: every temp file that exists is still on its way to deletion: it
\* belongs to the live recording, or the transcribe call that removes it
\* is running with its path.  (A file that nothing holds the path of is
\* never deleted: only transcribe removes files.)
C40_TempFileDeleted ==
    io.pc = "temp" =>
        \A f \in io.disk :
            \/ f = io.handle
            \/ io.loop = "transcribing" /\ f = io.path


====
